---- MODULE Spec2Model ----
(***************************************************************************)
(* Ollama chat backend: the chat relay-and-persistence pipeline.           *)
(*                                                                         *)
(*   Backend/database.py       storage (chats, messages)                   *)
(*   Backend/ollama_client.py  upstream client, model-list cache           *)
(*   Backend/server.py         blocking handler chat, streaming handler    *)
(*                             stream_chat and its generator generate      *)
(*                                                                         *)
(* Strings are TLA+ strings (sequences of characters): slicing and         *)
(* concatenation are computed, not abstracted.  Identifiers (uuid4) are    *)
(* fresh strings drawn from a counter.  The empty string stands for        *)
(* Python's None where the code only tests truthiness (chat_id).           *)
(*                                                                         *)
(* server.py declares `nonlocal chat_id` (line 229) after chat_id is read  *)
(* (line 223).  generate is modelled with the binding that declaration     *)
(* asks for: chat_id of generate is the variable of stream_chat.           *)
(***************************************************************************)
EXTENDS Integers, Sequences, FiniteSets, TLC

(***************************************************************************)
(* Bounds of the model.                                                    *)
(***************************************************************************)
MaxLines == 3         \* transport lines read from one streaming response
TimeStep == 100       \* seconds by which the clock is seen to advance
MaxTicks == 5         \* advances of the clock that are followed
MaxDeletes == 2       \* delete requests that are followed
MaxAppends == 3       \* calls of add_message that are followed
MaxCalls == 2         \* calls of get_models by the request threads that are followed
MaxProbes == 2        \* requests to connect_server that are followed
MaxTurnLines == 2     \* content chunks of one turn, when two turns run at once
MaxServers == 3       \* rows of the servers table

(***************************************************************************)
(* Program constants.                                                      *)
(***************************************************************************)
TitleLimit == 50      \* server.py:159 and :224, message[:50]
models_cache_time == 300   \* ollama_client.py:38, cache validity in seconds

VARIABLES
    db,             \* the SQLite database: chats, messages, clock, uuid source, call log
    db0,            \* the database as it was when the request arrived
    pc,             \* position of the worker that serves the request
    data,           \* request.json of the request being served
    model,          \* server.py:204 local of the handler
    message,        \* server.py:205
    chat_id,        \* server.py:206, rebound by generate (nonlocal)
    history,        \* server.py:211-215
    full_response,  \* server.py:219
    chat_created,   \* server.py:220
    chunk,          \* server.py:238, what chat_stream last handed to the for loop
    cs,             \* state of the chat_stream generator (ollama_client.py:156-226)
    upstream,       \* requests posted to {api_url}/api/chat, in order
    frames,         \* event-stream frames yielded to the caller, in order
    resp,           \* the handler's HTTP response (status, body)
    response,       \* server.py:144, what ollama_client.chat returned
    caller,         \* the caller's end of the connection: "connected" or "gone"
    models_cache,   \* ollama_client.py:37, {"timestamp": ..., "data": ...}
    wallclock,      \* time.time(), in seconds
    prev,           \* the get_models call before the last one
    last,           \* the last get_models call: arguments, time, result
    DEFAULT_MODEL,  \* config.py:34, read from the environment at import
    MODEL_PARAMS,   \* config.py:35-54, read from the environment at import
    dbcall,         \* the last call made to the storage module itself, and what it returned
    workers,        \* the request threads inside OllamaClient.get_models, each with its locals
    origin,         \* current_time of the call whose response.json() is models_cache["data"]
    entered,        \* calls of get_models the request threads have made
    emitted,        \* chunks chat_stream has yielded to a caller that iterates it itself
    api_url,        \* ollama_client.py:36, self.api_url of the module's ollama_client
    test_client,    \* server.py:404, the client the last connect_server built
    url,            \* server.py:399, the URL the last connect_server probed
    servers,        \* the servers table, in rowid order
    probed,         \* requests connect_server has served
    turns           \* two requests inside stream_chat at once, each with its locals

chatVars == <<db, db0, pc, data, model, message, chat_id, history, full_response,
              chat_created, chunk, cs, upstream, frames, resp, response, caller>>
cacheVars == <<models_cache, wallclock, prev, last>>
configVars == <<DEFAULT_MODEL, MODEL_PARAMS>>
threadVars == <<workers, origin, entered>>
streamVars == <<emitted>>
probeVars == <<api_url, test_client, url, servers, probed>>
turnVars == <<turns>>
directVars == <<dbcall, threadVars, streamVars, probeVars, turnVars>>
vars == <<chatVars, cacheVars, configVars, directVars>>

(***************************************************************************)
(* Python values.                                                          *)
(***************************************************************************)
NoneVal == ""                       \* None / absent, where only truthiness is read
Truthy(v) == v # NoneVal

Min(a, b) == IF a < b THEN a ELSE b

RECURSIVE Rep(_)
Rep(n) == IF n = 0 THEN "" ELSE "x" \o Rep(n - 1)

RECURSIVE Concat(_)
Concat(ss) == IF ss = <<>> THEN "" ELSE Head(ss) \o Concat(Tail(ss))

(***************************************************************************)
(* Backend/database.py                                                     *)
(*                                                                         *)
(* db.messages is the messages table in rowid (insertion) order.           *)
(* db.clock is the last reading of datetime.datetime.now() and db.tick the *)
(* distance to the next reading.  While a turn is served a reading is      *)
(* later than the reading before it (tick 1: every reading is separated    *)
(* from the next by a commit); the runs that call the module itself also   *)
(* take readings on a clock that has not moved (tick 0).  db.log records   *)
(* every write call made to the module and whether it committed.           *)
(***************************************************************************)
EmptyDb == [chats |-> <<>>, messages |-> <<>>, clock |-> 0, tick |-> 1, nextId |-> 1,
            log |-> <<>>]

\* datetime.datetime.now(): the reading after d.clock; d.tick is how far the
\* clock has moved since the last reading (0 when the clock has not moved)
datetime_now(d) == d.clock + d.tick

uuid4(d) == "id" \o ToString(d.nextId)

\* create_chat, the path that commits (database.py:123-136)
create_chat(d, title, mdl) ==
    LET id  == uuid4(d)
        now == datetime_now(d)
    IN  [d EXCEPT !.chats = (id :> [title |-> title, model |-> mdl,
                                    created_at |-> now, updated_at |-> now]) @@ @,
                  !.nextId = @ + 1,
                  !.clock = now,
                  !.log = Append(@, [op |-> "create_chat", chat_id |-> id,
                                     role |-> "", ok |-> TRUE])]

\* create_chat, the path that raises sqlite3.Error (database.py:137-141)
create_chat_raise(d) ==
    [d EXCEPT !.nextId = @ + 1,
              !.clock = datetime_now(d),
              !.log = Append(@, [op |-> "create_chat", chat_id |-> uuid4(d),
                                 role |-> "", ok |-> FALSE])]

\* update_chat_timestamp: its own sqlite3.Error is logged and swallowed
\* (database.py:146-165)
update_chat_timestamp(d, cid, ok) ==
    LET now == datetime_now(d)
    IN  [d EXCEPT !.clock = now,
                  !.chats = IF ok /\ cid \in DOMAIN @
                            THEN [@ EXCEPT ![cid].updated_at = now]
                            ELSE @]

\* The INSERT of add_message can commit only if the chat exists:
\* FOREIGN KEY (chat_id) REFERENCES chats (id) with PRAGMA foreign_keys = ON
\* (database.py:41, :108)
ForeignKeyOk(d, cid) == cid \in DOMAIN d.chats

\* add_message, the path that commits (database.py:179-195)
add_message(d, cid, role, content, updOk) ==
    LET id  == uuid4(d)
        now == datetime_now(d)
        ins == [d EXCEPT !.messages = Append(@, [id |-> id, chat_id |-> cid, role |-> role,
                                                 content |-> content, timestamp |-> now]),
                         !.nextId = @ + 1,
                         !.clock = now,
                         !.log = Append(@, [op |-> "add_message", chat_id |-> cid,
                                            role |-> role, ok |-> TRUE])]
    IN  update_chat_timestamp(ins, cid, updOk)

\* add_message, the path that raises sqlite3.Error (database.py:196-200)
add_message_raise(d, cid, role) ==
    [d EXCEPT !.nextId = @ + 1,
              !.clock = datetime_now(d),
              !.log = Append(@, [op |-> "add_message", chat_id |-> cid,
                                 role |-> role, ok |-> FALSE])]

\* the id add_message returns when it commits
add_message_id(d) == uuid4(d)

\* rows of one chat, in rowid order
ChatRows(d, cid) == SelectSeq(d.messages, LAMBDA r : r.chat_id = cid)

\* ORDER BY timestamp: every arrangement of the rows with non-decreasing
\* timestamps; SQL does not order rows whose timestamps are equal
OrderByTimestamp(rows) ==
    LET n == Len(rows)
        perms == { p \in [1..n -> 1..n] : \A i, j \in 1..n : i # j => p[i] # p[j] }
    IN  { [i \in 1..n |-> rows[p[i]]] :
            p \in { q \in perms : \A i, j \in 1..n :
                        i < j => rows[q[i]].timestamp <= rows[q[j]].timestamp } }

\* get_chat_messages: the results the SELECT can return; [] on sqlite3.Error
\* (database.py:246-271)
get_chat_messages(d, cid, readOk) ==
    IF readOk THEN OrderByTimestamp(ChatRows(d, cid)) ELSE { <<>> }

\* get_chat: what the function can return: None when there is no such chat
\* or on sqlite3.Error, else the chat's row with its messages
\* (database.py:205-244)
NoChat == [found |-> FALSE, id |-> NoneVal, title |-> "", messages |-> <<>>]

get_chat(d, cid, readOk) ==
    IF readOk /\ cid \in DOMAIN d.chats
    THEN { [found |-> TRUE, id |-> cid, title |-> d.chats[cid].title, messages |-> rows] :
             rows \in OrderByTimestamp(ChatRows(d, cid)) }
    ELSE { NoChat }

\* variant: the connection does not enable foreign keys, nothing cascades
delete_chat_NoCascade(d, cid, ok) ==
    IF ok
    THEN [db |-> [d EXCEPT !.chats = [c \in (DOMAIN @) \ {cid} |-> @[c]],
                           !.log = Append(@, [op |-> "delete_chat", chat_id |-> cid,
                                              role |-> "", ok |-> TRUE])],
          returned |-> TRUE]
    ELSE [db |-> [d EXCEPT !.log = Append(@, [op |-> "delete_chat", chat_id |-> cid,
                                              role |-> "", ok |-> FALSE])],
          returned |-> FALSE]

\* delete_chat: DELETE FROM chats WHERE id = ?, with the messages of the chat
\* (ON DELETE CASCADE, database.py:41), then True; False on sqlite3.Error.
\* A DELETE that matches no row is no error.  (database.py:296-322)
delete_chat(d, cid, ok) ==
    IF ok
    THEN [db |-> [d EXCEPT !.chats = [c \in (DOMAIN @) \ {cid} |-> @[c]],
                           !.messages = SelectSeq(@, LAMBDA r : r.chat_id # cid),
                           !.log = Append(@, [op |-> "delete_chat", chat_id |-> cid,
                                              role |-> "", ok |-> TRUE])],
          returned |-> TRUE]
    ELSE [db |-> [d EXCEPT !.log = Append(@, [op |-> "delete_chat", chat_id |-> cid,
                                              role |-> "", ok |-> FALSE])],
          returned |-> FALSE]

(***************************************************************************)
(* Backend/server.py, shared by chat and stream_chat                       *)
(***************************************************************************)
\* jsonify({...}), status: the fields the handlers set
Reply(status, kind, cid, text, mid) ==
    [status |-> status, kind |-> kind, chat_id |-> cid, response |-> text, message_id |-> mid]

\* variant: any(...) in place of all(...)
Rejected_AnyKey(dat) ==
    \/ ~dat.body
    \/ dat.keys = {}
    \/ ~(\E key \in {"model", "message"} : key \in dat.keys)

\* server.py:127 and :201
\*   not data or not all(key in data for key in ['model', 'message'])
Rejected(dat) ==
    \/ ~dat.body
    \/ dat.keys = {}
    \/ ~({"model", "message"} \subseteq dat.keys)

\* data.get(key): None when the key is absent
Get(dat, key) == IF key \in dat.keys THEN dat[key] ELSE NoneVal

\* data.get(key) of an optional number (server.py:133-134, :207-208)
GetNumber(dat, key) == IF key \in dat.keys THEN << dat[key] >> ELSE << >>

\* variant: len(message) >= 50
Title_AtLimit(msg) ==
    SubSeq(msg, 1, Min(TitleLimit, Len(msg)))
        \o (IF Len(msg) >= TitleLimit THEN "..." ELSE "")

\* server.py:159 and :224
\*   title = message[:50] + ('...' if len(message) > 50 else '')
Title(msg) ==
    SubSeq(msg, 1, Min(TitleLimit, Len(msg)))
        \o (IF Len(msg) > TitleLimit THEN "..." ELSE "")

\* server.py:141 and :215
\*   [{"role": msg["role"], "content": msg["content"]} for msg in messages]
RoleContent(rows) == [i \in 1..Len(rows) |-> [role |-> rows[i].role, content |-> rows[i].content]]

\* server.py:137-141 and :211-215: the histories the handler can load
LoadHistory(d, cid, readOk) ==
    IF Truthy(cid)
    THEN { RoleContent(rows) : rows \in get_chat_messages(d, cid, readOk) }
    ELSE { <<>> }

(***************************************************************************)
(* Backend/config.py:34-54  DEFAULT_MODEL and MODEL_PARAMS, as the module  *)
(* computes them from the environment when it is imported.  Temperatures   *)
(* are in hundredths (0.7 is 70).  Of each model's parameters the clients  *)
(* read temperature and max_tokens only.                                   *)
(***************************************************************************)
\* os.environ.get(name, default)
Getenv(env, name, default) == IF name \in DOMAIN env THEN env[name] ELSE default

\* an environment that sets none of the variables, and one that sets two
NoEnv == [name \in {} |-> 0]
Env1 == ("LLAMA3_TEMPERATURE" :> 20) @@ ("MISTRAL_MAX_TOKENS" :> 512)

\* config.py:35-54
ModelParams(env) ==
    [llama3  |-> [temperature |-> Getenv(env, "LLAMA3_TEMPERATURE", 70),
                  max_tokens  |-> Getenv(env, "LLAMA3_MAX_TOKENS", 2048)],
     mistral |-> [temperature |-> Getenv(env, "MISTRAL_TEMPERATURE", 72),
                  max_tokens  |-> Getenv(env, "MISTRAL_MAX_TOKENS", 2048)],
     gemma   |-> [temperature |-> Getenv(env, "GEMMA_TEMPERATURE", 70),
                  max_tokens  |-> Getenv(env, "GEMMA_MAX_TOKENS", 2048)]]

InitConfig(defaults, envs) ==
    /\ DEFAULT_MODEL \in defaults
    /\ MODEL_PARAMS \in { ModelParams(env) : env \in envs }

(***************************************************************************)
(* Backend/ollama_client.py: the requests chat and chat_stream build       *)
(***************************************************************************)
\* an optional number: <<>> is None, <<v>> is the value v
None == <<>>

\* dict.get(key, default)
DictGet(dict, key, default) == IF key \in DOMAIN dict THEN dict[key] ELSE default

\* ollama_client.py:111 and :176
\*   MODEL_PARAMS.get(model, MODEL_PARAMS.get(DEFAULT_MODEL, {}))
model_config(mdl) == DictGet(MODEL_PARAMS, mdl, DictGet(MODEL_PARAMS, DEFAULT_MODEL, <<>>))

\* variant: `if not temperature` in place of `if temperature is None`
Resolve_Falsy(given, cfg, key, default) ==
    IF given = None \/ given = <<0>> THEN DictGet(cfg, key, default) ELSE given[1]

\* ollama_client.py:112-115 and :177-180
\*   if temperature is None: temperature = model_config.get("temperature", 0.7)
Resolve(given, cfg, key, default) ==
    IF given = None THEN DictGet(cfg, key, default) ELSE given[1]

\* variant: a request that failed is posted a second time
Post_Retry(sent, request_body, failed) ==
    IF failed THEN Append(Append(sent, request_body), request_body)
    ELSE Append(sent, request_body)

\* ollama_client.py:135-154 and :200-226: requests.post is called once;
\* neither the status test nor an except clause calls it again
Post(sent, request_body, failed) == Append(sent, request_body)

\* ollama_client.py:110-132, the request_body of chat
chat_request_body(mdl, msg, hist, temperature, max_tokens) ==
    LET cfg == model_config(mdl)
        messages == (IF hist # <<>> THEN hist ELSE <<>>)
                        \o << [role |-> "user", content |-> msg] >>
    IN  [model |-> mdl,
         messages |-> messages,
         stream |-> FALSE,
         options |-> [temperature |-> Resolve(temperature, cfg, "temperature", 70),
                      num_predict |-> Resolve(max_tokens, cfg, "max_tokens", 2048)]]

\* variant: chat_stream takes its defaults without looking the model up
chat_stream_request_body_NoConfig(mdl, msg, hist, temperature, max_tokens) ==
    LET messages == (IF hist # <<>> THEN hist ELSE <<>>)
                        \o << [role |-> "user", content |-> msg] >>
    IN  [model |-> mdl,
         messages |-> messages,
         stream |-> TRUE,
         options |-> [temperature |-> Resolve(temperature, <<>>, "temperature", 70),
                      num_predict |-> Resolve(max_tokens, <<>>, "max_tokens", 2048)]]

\* ollama_client.py:175-197, the request_body of chat_stream
chat_stream_request_body(mdl, msg, hist, temperature, max_tokens) ==
    LET cfg == model_config(mdl)
        messages == (IF hist # <<>> THEN hist ELSE <<>>)
                        \o << [role |-> "user", content |-> msg] >>
    IN  [model |-> mdl,
         messages |-> messages,
         stream |-> TRUE,
         options |-> [temperature |-> Resolve(temperature, cfg, "temperature", 70),
                      num_predict |-> Resolve(max_tokens, cfg, "max_tokens", 2048)]]

(***************************************************************************)
(* Event-stream frames: f"data: {json.dumps({...})}\n\n"                   *)
(***************************************************************************)
Frame(type, val) == [type |-> type, val |-> val]

(***************************************************************************)
(* server.py:264  Response(generate()): the server resumes the generator,  *)
(* writes the frame it yields to the caller's connection, and resumes it   *)
(* again.  generate does not look at the connection.  After the caller has *)
(* gone no frame reaches it; the write of a frame then either fails, and   *)
(* the server closes the generator (GeneratorExit is raised at the yield   *)
(* the generator is suspended at), or is taken by the transport without    *)
(* an error, and the generator is resumed as before.                       *)
(***************************************************************************)
\* the frames the caller has been sent, after `yielded` is yielded
Delivered(yielded) == IF caller = "connected" THEN frames \o yielded ELSE frames

\* whether the write of what is yielded fails
WriteFails(yielded) == IF yielded # <<>> /\ caller = "gone" THEN BOOLEAN ELSE {FALSE}

\* variant: a finally clause stores what has been accumulated
OnClose_SavePartial(d, cid, text) ==
    IF ForeignKeyOk(d, cid) THEN add_message(d, cid, "assistant", text, TRUE) ELSE d

\* server.py:237-262: GeneratorExit is no Exception, the except clause of
\* line 260 does not run and there is no finally clause: storage after the
\* generator is closed is storage before
OnClose(d, cid, text) == d

\* the caller closes the connection while the response is being produced
disconnect ==
    /\ pc \in {"START", "STREAMING"}
    /\ caller = "connected"
    /\ caller' = "gone"
    /\ UNCHANGED <<directVars, db0, db, pc, data, model, message, chat_id, history, full_response,
                   chat_created, chunk, cs, upstream, frames, resp, response,
                   cacheVars, configVars>>

NoChunk == [kind |-> "none", val |-> ""]
NoResponse == [kind |-> "none", content |-> ""]

(***************************************************************************)
(* Inputs                                                                  *)
(***************************************************************************)
Models == {"llama3"}
Messages == {"", "Hello", Rep(TitleLimit), Rep(TitleLimit + 1)}
Deltas == {"Hi", " there", ""}

\* a chat that storage holds at the start, and an id storage never held
OldChat == uuid4(EmptyDb)
GhostChat == "ghost"

\* storage at the start: empty; one chat without messages; one chat with a turn
Db1 == create_chat(EmptyDb, "Old", "llama3")
Db2 == add_message(add_message(Db1, OldChat, "user", "Q", TRUE),
                   OldChat, "assistant", "A", TRUE)
InitDbs == {EmptyDb, Db1, Db2}

NoBody == [body |-> FALSE, keys |-> {}, model |-> NoneVal, message |-> NoneVal,
           chat_id |-> NoneVal, temperature |-> 0, max_tokens |-> 0]

Requests ==
    {NoBody} \cup
    { [body |-> TRUE, keys |-> k,
       model |-> (IF "model" \in k THEN m ELSE NoneVal),
       message |-> (IF "message" \in k THEN s ELSE NoneVal),
       chat_id |-> (IF "chat_id" \in k THEN c ELSE NoneVal),
       temperature |-> 0, max_tokens |-> 0] :
        k \in SUBSET {"model", "message", "chat_id"},
        m \in Models, s \in Messages, c \in {OldChat, GhostChat} }

\* requests that name a configured or an unconfigured model and give, or do
\* not give, the generation parameters
ParamModels == {"llama3", "mistral", "phi"}
ParamRequests ==
    { [body |-> TRUE, keys |-> {"model", "message"} \cup k,
       model |-> m, message |-> "Hello", chat_id |-> NoneVal,
       temperature |-> (IF "temperature" \in k THEN t ELSE 0),
       max_tokens |-> (IF "max_tokens" \in k THEN n ELSE 0)] :
        k \in SUBSET {"temperature", "max_tokens"},
        m \in ParamModels, t \in {0, 90}, n \in {0, 100} }

(***************************************************************************)
(* Initial state: the server is up, a request arrives.                     *)
(***************************************************************************)
StartDb(d) == [d EXCEPT !.log = <<>>]

InitChat(dbs, reqs) ==
    /\ db \in { StartDb(d) : d \in dbs }
    /\ db0 = db
    /\ data \in reqs
    /\ pc = "idle"
    /\ model = NoneVal
    /\ message = NoneVal
    /\ chat_id = NoneVal
    /\ history = <<>>
    /\ full_response = ""
    /\ chat_created = FALSE
    /\ chunk = NoChunk
    /\ cs = [phase |-> "new", lines |-> 0]
    /\ upstream = <<>>
    /\ frames = <<>>
    /\ resp = Reply(0, "none", NoneVal, "", NoneVal)
    /\ response = NoResponse
    /\ caller = "connected"

(***************************************************************************)
(* Backend/ollama_client.py:28-89  the client and its model-list cache     *)
(***************************************************************************)
NoModels == "None"                   \* models_cache["data"] is None
Snapshots == {"tags-1", "tags-2"}    \* decoded bodies of GET /api/tags

\* outcomes of requests.get(f"{api_url}/api/tags") and response.json()
TagsOutcomes ==
    { [kind |-> "ok", val |-> s] : s \in Snapshots }
        \cup { [kind |-> "status", val |-> ""],       \* status_code != 200
               [kind |-> "exception", val |-> ""],    \* requests.get raises
               [kind |-> "body", val |-> ""] }        \* 200, response.json() raises

NoCall == [force |-> FALSE, time |-> 0, live |-> FALSE,
           res |-> [kind |-> "none", val |-> ""], ts |-> 0, gets |-> 0, out |-> "none"]

\* OllamaClient.__init__ (ollama_client.py:36-38); time.time() is far from 0
StartTime == 2 * models_cache_time

InitCache ==
    /\ models_cache = [timestamp |-> 0, data |-> NoModels]
    /\ wallclock = StartTime
    /\ prev = NoCall
    /\ last = NoCall

\* variant: force_refresh is not consulted
CacheValid_IgnoresForce(cache, force_refresh, current_time) ==
    /\ cache.data # NoModels
    /\ current_time - cache.timestamp < models_cache_time

\* ollama_client.py:68-70
CacheValid(cache, force_refresh, current_time) ==
    /\ ~force_refresh
    /\ cache.data # NoModels
    /\ current_time - cache.timestamp < models_cache_time

\* variant: the snapshot is returned but not stored
Reload_TimestampOnly(cache, current_time, r) ==
    CASE r.kind \in {"ok", "body"} -> [cache EXCEPT !.timestamp = current_time]
      [] OTHER                    -> cache

\* variant: the else branch and the except clause store the error result
Reload_StoresError(cache, current_time, r) ==
    CASE r.kind = "ok"   -> [timestamp |-> current_time, data |-> r.val]
      [] r.kind = "body" -> [cache EXCEPT !.timestamp = current_time]
      [] OTHER           -> [timestamp |-> current_time, data |-> r.kind]

\* ollama_client.py:75-89, the cache after the live call: line 79 stores the
\* timestamp before line 80 decodes the body
Reload(cache, current_time, r) ==
    CASE r.kind = "ok"   -> [timestamp |-> current_time, data |-> r.val]
      [] r.kind = "body" -> [cache EXCEPT !.timestamp = current_time]
      [] OTHER           -> cache

\* what get_models returns after the live call
Loaded(r) ==
    IF r.kind = "ok" THEN [kind |-> "models", val |-> r.val]
    ELSE [kind |-> "error", val |-> r.kind]

\* ollama_client.py:55-89
get_models ==
    \E force_refresh \in BOOLEAN :
      LET current_time == wallclock
      IN  /\ IF CacheValid(models_cache, force_refresh, current_time)
             THEN /\ last' = [force |-> force_refresh, time |-> current_time, live |-> FALSE,
                              res |-> [kind |-> "models", val |-> models_cache.data],
                              ts |-> models_cache.timestamp, gets |-> 0, out |-> "none"]
                  /\ UNCHANGED <<models_cache, origin>>
             ELSE \E r \in TagsOutcomes :
                  /\ models_cache' = Reload(models_cache, current_time, r)
                  /\ origin' = IF r.kind = "ok" THEN current_time ELSE origin
                  /\ last' = [force |-> force_refresh, time |-> current_time, live |-> TRUE,
                              res |-> Loaded(r),
                              ts |-> Reload(models_cache, current_time, r).timestamp,
                              \* line 76, the one requests.get of the call, and its outcome
                              gets |-> 1, out |-> r.kind]
          /\ prev' = last
          /\ UNCHANGED <<dbcall, workers, entered, streamVars, wallclock, chatVars, configVars, probeVars, turnVars>>

\* time passes between calls
Tick ==
    /\ \E dt \in {TimeStep, models_cache_time} :
         /\ wallclock + dt <= StartTime + MaxTicks * TimeStep
         /\ wallclock' = wallclock + dt
    /\ UNCHANGED <<directVars, models_cache, prev, last, chatVars, configVars>>

\* no call has been made to the storage module itself
NoStorageCall == [op |-> "none", chat_id |-> NoneVal, raised |-> FALSE, returned |-> NoneVal,
                  rows |-> <<>>, found |-> FALSE, before |-> 0]

\* the threads that serve GET /api/models, all on the one ollama_client
Threads == {1, 2}

\* a thread that is not inside get_models
NoWorker == [pc |-> "out", force_refresh |-> FALSE, current_time |-> 0,
             r |-> [kind |-> "none", val |-> ""],
             cached |-> FALSE, compared |-> 0, captured |-> 0,
             ret |-> [kind |-> "none", val |-> ""]]

\* config.py:19-21 with no OLLAMA_API_HOST and OLLAMA_API_PORT in the environment
OLLAMA_API_URL == "http://localhost:11434"

\* OllamaClient.__init__ (ollama_client.py:28-39)
OllamaClient(given_url) ==
    [api_url |-> IF Truthy(given_url) THEN given_url ELSE OLLAMA_API_URL,
     models_cache |-> [timestamp |-> 0, data |-> NoModels]]

\* no connect_server request has built a client
NoClient == [api_url |-> NoneVal, models_cache |-> [timestamp |-> 0, data |-> NoModels]]

\* the servers table after init_db: the local server, as the default
\* (database.py:76-79, :92-103)
DefaultServers == << [id |-> "server0", name |-> "Lokaler Ollama-Server",
                      url |-> OLLAMA_API_URL, is_default |-> 1] >>

InitProbe ==
    /\ api_url = OllamaClient(NoneVal).api_url       \* ollama_client.py:321
    /\ test_client = NoClient
    /\ url = NoneVal
    /\ servers = DefaultServers
    /\ probed = 0

\* no request is inside stream_chat
NoTurn == [pc |-> "idle", supplied |-> NoneVal, message |-> NoneVal, chat_id |-> NoneVal,
           new_chat_id |-> NoneVal, full_response |-> "", lines |-> 0,
           frames |-> <<>>, wrote |-> <<>>, deltas |-> <<>>]

InitDirect ==
    /\ InitProbe
    /\ dbcall = NoStorageCall
    /\ workers = [t \in Threads |-> NoWorker]
    /\ origin = 0
    /\ entered = 0
    /\ emitted = <<>>
    /\ turns = [t \in Threads |-> NoTurn]

Init ==
    /\ InitChat(InitDbs, Requests)
    /\ InitCache
    /\ InitDirect
    /\ InitConfig({"llama3"}, {NoEnv})

InitClient ==
    /\ InitChat({EmptyDb}, {NoBody})
    /\ InitCache
    /\ InitDirect
    /\ InitConfig({"llama3"}, {NoEnv})

\* turn requests for the runs that also read and delete conversations
ChatsRequests ==
    { r \in Requests : {"model", "message"} \subseteq r.keys /\ r.message = "Hello" }

InitChats ==
    /\ InitChat(InitDbs, ChatsRequests)
    /\ InitCache
    /\ InitDirect
    /\ InitConfig({"llama3"}, {NoEnv})

\* the runs in which the model list is asked for and a turn is served
UpstreamRequests == { r \in ChatsRequests : r.chat_id = OldChat }

InitUpstream ==
    /\ InitChat({Db2}, UpstreamRequests)
    /\ InitCache
    /\ InitDirect
    /\ InitConfig({"llama3"}, {NoEnv})

InitParams ==
    /\ InitChat({EmptyDb}, ParamRequests)
    /\ InitCache
    /\ InitDirect
    /\ InitConfig(ParamModels, {NoEnv, Env1})

(***************************************************************************)
(* server.py:183-264  stream_chat, up to `return Response(generate())`.    *)
(* The generator body does not run before the response is iterated.        *)
(***************************************************************************)
stream_chat ==
    /\ pc = "idle"
    /\ IF Rejected(data)
       THEN /\ resp' = Reply(400, "error", NoneVal, "", NoneVal)
            /\ pc' = "rejected"
            /\ UNCHANGED <<model, message, chat_id, history>>
       ELSE /\ model' = Get(data, "model")
            /\ message' = Get(data, "message")
            /\ chat_id' = Get(data, "chat_id")
            /\ \E readOk \in BOOLEAN :
                 history' \in LoadHistory(db, Get(data, "chat_id"), readOk)
            /\ resp' = Reply(200, "event-stream", NoneVal, "", NoneVal)
            /\ pc' = "START"
    /\ UNCHANGED <<directVars, db0, db, data, full_response, chat_created, chunk, cs, upstream, frames,
                   response, caller, cacheVars, configVars>>

(***************************************************************************)
(* server.py:217-235  generate, from its first line to the for loop:       *)
(* the conversation is resolved and the user message stored.  create_chat  *)
(* and add_message are called outside the try block: when one raises, the  *)
(* exception leaves the generator and the response ends there.             *)
(***************************************************************************)
\* variant: the frame carries chat_id before it is rebound
CreatedFrame_Stale(cid, new_chat_id) == Frame("chat_id", cid)

\* line 228: yield f"data: {json.dumps({'chat_id': new_chat_id})}\n\n"
CreatedFrame(cid, new_chat_id) == Frame("chat_id", new_chat_id)

\* variant: the user message is stored only for a new conversation
ResolveConversation_NewOnly(d, cid, created, msg, mdl, cOk, uOk, updOk) ==
    IF ~Truthy(cid)
    THEN LET new_chat_id == uuid4(d)
             d1 == create_chat(d, Title(msg), mdl)
         IN  IF ~cOk
             THEN [db |-> create_chat_raise(d), raised |-> TRUE,
                   chat_id |-> cid, chat_created |-> created, yield |-> <<>>]
             ELSE IF ~uOk
             THEN [db |-> add_message_raise(d1, new_chat_id, "user"), raised |-> TRUE,
                   chat_id |-> cid, chat_created |-> created, yield |-> <<>>]
             ELSE [db |-> add_message(d1, new_chat_id, "user", msg, updOk), raised |-> FALSE,
                   chat_id |-> new_chat_id, chat_created |-> TRUE,
                   yield |-> << Frame("chat_id", new_chat_id) >>]
    ELSE [db |-> d, raised |-> FALSE, chat_id |-> cid, chat_created |-> created,
          yield |-> <<>>]

\* variant: `if not chat_created` in place of `elif`, read before the flag is set
ResolveConversation_Twice(d, cid, created, msg, mdl, cOk, uOk, updOk) ==
    IF ~Truthy(cid)
    THEN LET new_chat_id == uuid4(d)
             d1 == create_chat(d, Title(msg), mdl)
             d2 == add_message(d1, new_chat_id, "user", msg, updOk)
         IN  IF ~cOk
             THEN [db |-> create_chat_raise(d), raised |-> TRUE,
                   chat_id |-> cid, chat_created |-> created, yield |-> <<>>]
             ELSE IF ~uOk
             THEN [db |-> add_message_raise(d1, new_chat_id, "user"), raised |-> TRUE,
                   chat_id |-> cid, chat_created |-> created, yield |-> <<>>]
             ELSE [db |-> add_message(d2, new_chat_id, "user", msg, updOk), raised |-> FALSE,
                   chat_id |-> new_chat_id, chat_created |-> TRUE,
                   yield |-> << Frame("chat_id", new_chat_id) >>]
    ELSE IF uOk /\ ForeignKeyOk(d, cid)
    THEN [db |-> add_message(d, cid, "user", msg, updOk), raised |-> FALSE,
          chat_id |-> cid, chat_created |-> created, yield |-> <<>>]
    ELSE [db |-> add_message_raise(d, cid, "user"), raised |-> TRUE,
          chat_id |-> cid, chat_created |-> created, yield |-> <<>>]

\* lines 223-234: the storage calls, the frame and the rebinding of chat_id
ResolveConversation(d, cid, created, msg, mdl, cOk, uOk, updOk) ==
    IF ~Truthy(cid)
    THEN LET new_chat_id == uuid4(d)
             d1 == create_chat(d, Title(msg), mdl)
         IN  IF ~cOk
             THEN [db |-> create_chat_raise(d), raised |-> TRUE,
                   chat_id |-> cid, chat_created |-> created, yield |-> <<>>]
             ELSE IF ~uOk
             THEN [db |-> add_message_raise(d1, new_chat_id, "user"), raised |-> TRUE,
                   chat_id |-> cid, chat_created |-> created, yield |-> <<>>]
             ELSE [db |-> add_message(d1, new_chat_id, "user", msg, updOk), raised |-> FALSE,
                   chat_id |-> new_chat_id, chat_created |-> TRUE,
                   yield |-> << CreatedFrame(cid, new_chat_id) >>]
    ELSE IF ~created
    THEN IF uOk /\ ForeignKeyOk(d, cid)
         THEN [db |-> add_message(d, cid, "user", msg, updOk), raised |-> FALSE,
               chat_id |-> cid, chat_created |-> created, yield |-> <<>>]
         ELSE [db |-> add_message_raise(d, cid, "user"), raised |-> TRUE,
               chat_id |-> cid, chat_created |-> created, yield |-> <<>>]
    ELSE [db |-> d, raised |-> FALSE, chat_id |-> cid, chat_created |-> created,
          yield |-> <<>>]

generate_resolve ==
    /\ pc = "START"
    /\ \E cOk, uOk, updOk \in BOOLEAN :
         LET r == ResolveConversation(db, chat_id, chat_created, message, model,
                                      cOk, uOk, updOk)
         IN  \E closed \in WriteFails(r.yield) :      \* closed at the yield of line 228
             /\ db' = IF closed THEN OnClose(r.db, r.chat_id, full_response) ELSE r.db
             /\ chat_id' = IF closed THEN chat_id ELSE r.chat_id
             /\ chat_created' = IF closed THEN chat_created ELSE r.chat_created
             /\ frames' = Delivered(r.yield)
             /\ pc' = IF r.raised THEN "CRASHED"
                      ELSE IF closed THEN "CLOSED" ELSE "STREAMING"
    /\ UNCHANGED <<directVars, db0, data, model, message, history, full_response, chunk, cs, upstream,
                   resp, response, caller, cacheVars, configVars>>

(***************************************************************************)
(* ollama_client.py:156-226  chat_stream, one resumption of the generator. *)
(* The request is posted when the generator is first resumed.  What a      *)
(* resumption hands to the for loop of generate:                           *)
(*   a chunk  [kind, val]   kind "content": {"message": {"content": val}}  *)
(*                          kind "other":   a JSON object with neither     *)
(*                                          "error" nor "message"          *)
(*                          kind "error":   a dict with key "error"        *)
(*                          kind "shape":   JSON that generate cannot      *)
(*                                          index (TypeError in generate)  *)
(*   kind "stop":   the generator is exhausted (StopIteration)             *)
(*   kind "raise":  an exception that is no requests.RequestException      *)
(* together with the generator's state afterwards.                         *)
(***************************************************************************)
Chunk(kind, val) == [kind |-> kind, val |-> val]

\* ollama_client.py:214-221, one non-empty line of response.iter_lines()
LineChunks ==
    { Chunk("content", d) : d \in Deltas }
        \cup { Chunk("other", ""),
               Chunk("error", "upstream"),       \* json.loads(line) has key "error"
               Chunk("shape", ""),
               Chunk("error", "parse") }         \* json.JSONDecodeError, line 219-221

\* after a line the generator stays in the loop over iter_lines, also after
\* a line that failed to parse (no return follows the yield of line 221)
ChatStreamLines(n) ==
    (IF n < MaxLines
     THEN { [chunk |-> c, cs |-> [phase |-> "lines", lines |-> n + 1]] : c \in LineChunks }
     ELSE {})
    \cup { [chunk |-> Chunk("stop", ""), cs |-> [phase |-> "closed", lines |-> n]],
           \* requests.RequestException while reading the body, line 223-226
           [chunk |-> Chunk("error", "connection"), cs |-> [phase |-> "last", lines |-> n]],
           [chunk |-> Chunk("raise", ""), cs |-> [phase |-> "closed", lines |-> n]] }

chat_stream(c) ==
    CASE c.phase = "new" ->
            \* requests.post raises, line 223-226
            { [chunk |-> Chunk("error", "connection"), cs |-> [phase |-> "last", lines |-> 0]],
            \* response.status_code != 200, line 207-211
              [chunk |-> Chunk("error", "status"), cs |-> [phase |-> "last", lines |-> 0]] }
            \cup ChatStreamLines(0)
      [] c.phase = "lines" -> ChatStreamLines(c.lines)
      [] c.phase = "last" -> { [chunk |-> Chunk("stop", ""), cs |-> [c EXCEPT !.phase = "closed"]] }
      [] OTHER -> {}

\* a blank line of the body is skipped inside the generator (line 215)
chat_stream_blank ==
    /\ pc = "STREAMING"
    /\ cs.phase \in {"new", "lines"}
    /\ cs.lines < MaxLines
    /\ cs' = [phase |-> "lines", lines |-> cs.lines + 1]
    /\ upstream' = IF cs.phase = "new"
                   THEN Post(upstream,
                             chat_stream_request_body(model, message, history,
                                                      GetNumber(data, "temperature"),
                                                      GetNumber(data, "max_tokens")),
                             FALSE)
                   ELSE upstream
    /\ UNCHANGED <<directVars, db0, db, pc, data, model, message, chat_id, history, full_response,
                   chat_created, chunk, frames, resp, response, caller, cacheVars, configVars>>

(***************************************************************************)
(* server.py:237-262  generate, one iteration of the for loop, or the      *)
(* code after the loop when chat_stream is exhausted.                      *)
(***************************************************************************)
\* variant: full_response = content
Accumulate_Overwrite(text, content) == content

\* line 251: full_response += content
Accumulate(text, content) == text \o content

\* variant: the loop goes on after the error frame
AfterErrorChunk_Continue == "STREAMING"

\* line 247: return, after the error frame
AfterErrorChunk == "FAILED"

\* variant: the done frame is yielded before add_message is called
generate_complete_DoneFirst(aOk, updOk) ==
    IF aOk /\ ForeignKeyOk(db, chat_id)
    THEN /\ db' = add_message(db, chat_id, "assistant", full_response, updOk)
         /\ frames' = Append(frames, Frame("done", add_message_id(db)))
         /\ pc' = "DONE"
    ELSE /\ db' = add_message_raise(db, chat_id, "assistant")
         /\ frames' = frames \o << Frame("done", add_message_id(db)),
                                   Frame("error", "storage") >>
         /\ pc' = "FAILED"

\* variant: the done frame is sent whether or not add_message raised
generate_complete_DoneAnyway(aOk, updOk) ==
    IF aOk /\ ForeignKeyOk(db, chat_id)
    THEN /\ db' = add_message(db, chat_id, "assistant", full_response, updOk)
         /\ frames' = Delivered(<< Frame("done", add_message_id(db)) >>)
         /\ pc' = "DONE"
    ELSE /\ db' = add_message_raise(db, chat_id, "assistant")
         /\ frames' = Delivered(<< Frame("done", add_message_id(db)) >>)
         /\ pc' = "DONE"

\* variant: `if full_response:` in front of lines 254-258
generate_complete_SkipEmpty(aOk, updOk) ==
    IF full_response = ""
    THEN /\ db' = db
         /\ frames' = frames
         /\ pc' = "DONE"
    ELSE IF aOk /\ ForeignKeyOk(db, chat_id)
    THEN /\ db' = add_message(db, chat_id, "assistant", full_response, updOk)
         /\ frames' = Delivered(<< Frame("done", add_message_id(db)) >>)
         /\ pc' = "DONE"
    ELSE /\ db' = add_message_raise(db, chat_id, "assistant")
         /\ frames' = Delivered(<< Frame("error", "storage") >>)
         /\ pc' = "FAILED"

\* lines 254-258 and the except clause 260-262
generate_complete(aOk, updOk) ==
    IF aOk /\ ForeignKeyOk(db, chat_id)
    THEN /\ db' = add_message(db, chat_id, "assistant", full_response, updOk)
         /\ frames' = Delivered(<< Frame("done", add_message_id(db)) >>)
         /\ pc' = "DONE"
    ELSE /\ db' = add_message_raise(db, chat_id, "assistant")
         /\ frames' = Delivered(<< Frame("error", "storage") >>)
         /\ pc' = "FAILED"

generate_next ==
    /\ pc = "STREAMING"
    /\ \E r \in chat_stream(cs) :
         /\ upstream' = IF cs.phase = "new"
                        THEN Post(upstream,
                                  chat_stream_request_body(model, message, history,
                                                           GetNumber(data, "temperature"),
                                                           GetNumber(data, "max_tokens")),
                                  r.chunk \in {Chunk("error", "connection"),
                                               Chunk("error", "status")})
                        ELSE upstream
         /\ chunk' = r.chunk
         /\ CASE r.chunk.kind = "error" ->           \* lines 245-247
                    /\ frames' = Delivered(<< Frame("error", r.chunk.val) >>)
                    /\ pc' = AfterErrorChunk
                    /\ cs' = IF AfterErrorChunk = "FAILED"
                             THEN [r.cs EXCEPT !.phase = "closed"] ELSE r.cs
                    /\ UNCHANGED <<db, full_response>>
              [] r.chunk.kind = "content" ->         \* lines 249-252
                    /\ full_response' = Accumulate(full_response, r.chunk.val)
                    /\ frames' = Delivered(<< Frame("content", r.chunk.val) >>)
                    /\ cs' = r.cs
                    /\ \E closed \in WriteFails(<< Frame("content", r.chunk.val) >>) :
                         \* closed at the yield of line 252
                         /\ pc' = IF closed THEN "CLOSED" ELSE pc
                         /\ db' = IF closed
                                  THEN OnClose(db, chat_id,
                                               Accumulate(full_response, r.chunk.val))
                                  ELSE db
              [] r.chunk.kind = "other" ->
                    /\ cs' = r.cs
                    /\ UNCHANGED <<db, pc, full_response, frames>>
              [] r.chunk.kind \in {"shape", "raise"} ->   \* except Exception, 260-262
                    /\ frames' = Delivered(<< Frame("error", "exception") >>)
                    /\ pc' = "FAILED"
                    /\ cs' = [r.cs EXCEPT !.phase = "closed"]
                    /\ UNCHANGED <<db, full_response>>
              [] r.chunk.kind = "stop" ->
                    /\ cs' = r.cs
                    /\ \E aOk, updOk \in BOOLEAN : generate_complete(aOk, updOk)
                    /\ UNCHANGED full_response
    /\ UNCHANGED <<directVars, db0, data, model, message, chat_id, history, chat_created, resp, response,
                   caller, cacheVars, configVars>>

(***************************************************************************)
(* ollama_client.py:134-154  chat, the try block: requests.post with       *)
(* timeout=30, the status test, response.json(), and the except clause.    *)
(* Outcomes of the request:                                                *)
(*   kind "ok":         status 200, body {"message": {"content": ...}}     *)
(*   kind "nomsg":      status 200, a JSON object without "message"        *)
(*   kind "status":     a status other than 200                            *)
(*   kind "connection": requests.post raises ConnectionError               *)
(*   kind "timeout":    requests.post raises Timeout                       *)
(*   kind "body":       status 200, response.json() raises                 *)
(* What chat returns has kind "ok" or "nomsg" (the decoded body) or kind   *)
(* "error" ({"error": error_msg}, content standing for the message).       *)
(***************************************************************************)
PostOutcomes ==
    { [kind |-> "ok", content |-> d] : d \in Deltas }
        \cup { [kind |-> k, content |-> ""] :
                 k \in {"nomsg", "status", "connection", "timeout", "body"} }

\* variant: `except requests.ConnectionError` in place of `except Exception`
OllamaClient_chat_ConnectionOnly(o) ==
    CASE o.kind \in {"ok", "nomsg"} -> o
      [] o.kind \in {"status", "connection"} -> [kind |-> "error", content |-> o.kind]
      [] OTHER -> [kind |-> "raise", content |-> o.kind]

\* lines 142-143 return response.json(); lines 144-149 and 151-154 return
\* {"error": error_msg}
OllamaClient_chat(o) ==
    CASE o.kind \in {"ok", "nomsg"} -> o
      [] o.kind = "status" -> [kind |-> "error", content |-> "status"]
      [] OTHER -> [kind |-> "error", content |-> o.kind]

ChatResponses == { OllamaClient_chat(o) : o \in PostOutcomes }

\* response.get("message", {}).get("content", "")   (server.py:166, :179)
AssistantContent(answer) == IF answer.kind = "ok" THEN answer.content ELSE ""

(***************************************************************************)
(* server.py:156-181  chat, the try block that stores the turn and the     *)
(* except clause that turns a storage exception into a warning.            *)
(***************************************************************************)
\* variant: a storage exception is answered with an error-only response
StoreTurn_ErrorOnly(d, cid, msg, mdl, answer, cOk, uOk, aOk, upd1, upd2) ==
    LET create  == ~Truthy(cid)
        cid1    == IF create THEN uuid4(d) ELSE cid
        d1      == IF create THEN create_chat(d, Title(msg), mdl) ELSE d
        userOk  == uOk /\ ForeignKeyOk(d1, cid1)
        d2      == add_message(d1, cid1, "user", msg, upd1)
        content == AssistantContent(answer)
        asstOk  == aOk /\ ForeignKeyOk(d2, cid1)
        failure == Reply(500, "error", NoneVal, "", NoneVal)
    IN  IF create /\ ~cOk
        THEN [db |-> create_chat_raise(d), resp |-> failure]
        ELSE IF ~userOk
        THEN [db |-> add_message_raise(d1, cid1, "user"), resp |-> failure]
        ELSE IF ~asstOk
        THEN [db |-> add_message_raise(d2, cid1, "assistant"), resp |-> failure]
        ELSE [db |-> add_message(d2, cid1, "assistant", content, upd2),
              resp |-> Reply(200, "ok", cid1, content, add_message_id(d2))]

\* variant: the assistant message is stored before the user message
StoreTurn_AssistantFirst(d, cid, msg, mdl, answer, cOk, uOk, aOk, upd1, upd2) ==
    LET create  == ~Truthy(cid)
        cid1    == IF create THEN uuid4(d) ELSE cid
        d1      == IF create THEN create_chat(d, Title(msg), mdl) ELSE d
        content == AssistantContent(answer)
        asstOk  == aOk /\ ForeignKeyOk(d1, cid1)
        d2      == add_message(d1, cid1, "assistant", content, upd2)
        userOk  == uOk /\ ForeignKeyOk(d2, cid1)
        warning == Reply(200, "warning", NoneVal, content, NoneVal)
    IN  IF create /\ ~cOk
        THEN [db |-> create_chat_raise(d), resp |-> warning]
        ELSE IF ~asstOk
        THEN [db |-> add_message_raise(d1, cid1, "assistant"), resp |-> warning]
        ELSE IF ~userOk
        THEN [db |-> add_message_raise(d2, cid1, "user"), resp |-> warning]
        ELSE [db |-> add_message(d2, cid1, "user", msg, upd1),
              resp |-> Reply(200, "ok", cid1, content, add_message_id(d1))]

StoreTurn(d, cid, msg, mdl, answer, cOk, uOk, aOk, upd1, upd2) ==
    LET create  == ~Truthy(cid)
        cid1    == IF create THEN uuid4(d) ELSE cid
        d1      == IF create THEN create_chat(d, Title(msg), mdl) ELSE d
        userOk  == uOk /\ ForeignKeyOk(d1, cid1)
        d2      == add_message(d1, cid1, "user", msg, upd1)
        content == AssistantContent(answer)
        asstOk  == aOk /\ ForeignKeyOk(d2, cid1)
        warning == Reply(200, "warning", NoneVal, content, NoneVal)
    IN  IF create /\ ~cOk
        THEN [db |-> create_chat_raise(d), resp |-> warning]
        ELSE IF ~userOk
        THEN [db |-> add_message_raise(d1, cid1, "user"), resp |-> warning]
        ELSE IF ~asstOk
        THEN [db |-> add_message_raise(d2, cid1, "assistant"), resp |-> warning]
        ELSE [db |-> add_message(d2, cid1, "assistant", content, upd2),
              resp |-> Reply(200, "ok", cid1, content, add_message_id(d2))]

(***************************************************************************)
(* server.py:109-181  chat, the blocking handler                           *)
(***************************************************************************)
chat ==
    /\ pc = "idle"
    /\ IF Rejected(data)
       THEN /\ resp' = Reply(400, "error", NoneVal, "", NoneVal)
            /\ pc' = "rejected"
            /\ UNCHANGED <<db, model, message, chat_id, history, upstream, response>>
       ELSE \E readOk \in BOOLEAN :
            \E hist \in LoadHistory(db, Get(data, "chat_id"), readOk) :
            \E answer \in ChatResponses :
              /\ response' = answer
              /\ model' = Get(data, "model")
              /\ message' = Get(data, "message")
              /\ history' = hist
              /\ upstream' = Post(upstream,
                                chat_request_body(Get(data, "model"), Get(data, "message"),
                                                  hist, GetNumber(data, "temperature"),
                                                  GetNumber(data, "max_tokens")),
                                answer.kind = "error")
              /\ IF answer.kind = "error"
                 THEN /\ resp' = Reply(500, "error", NoneVal, "", NoneVal)     \* lines 152-153
                      /\ chat_id' = Get(data, "chat_id")
                      /\ pc' = "returned"
                      /\ UNCHANGED db
                 ELSE \E cOk, uOk, aOk, upd1, upd2 \in BOOLEAN :
                        LET r == StoreTurn(db, Get(data, "chat_id"), Get(data, "message"),
                                           Get(data, "model"), answer,
                                           cOk, uOk, aOk, upd1, upd2)
                        IN  /\ db' = r.db
                            /\ resp' = r.resp
                            /\ chat_id' = IF r.resp.kind = "ok" THEN r.resp.chat_id
                                          ELSE Get(data, "chat_id")
                            /\ pc' = "returned"
    /\ UNCHANGED <<directVars, db0, data, full_response, chat_created, chunk, cs, frames, caller, cacheVars,
                   configVars>>

(***************************************************************************)
(* server.py:277-309  get_chat_by_id and delete_chat_by_id.  Each serves a *)
(* request of its own, which arrives while no turn is being served;        *)
(* chat_id is the path parameter, db0 the database when the request        *)
(* arrives.  The body of a 200 reply of          *)
(* get_chat_by_id is the chat with its messages; resp keeps its id.        *)
(***************************************************************************)
Served == {"idle", "rejected", "returned", "DONE", "FAILED", "CRASHED", "CLOSED",
           "read", "deleted"}

\* ids a caller can know: of a stored chat, of a chat stored until the last
\* call, and one that storage never held
PathIds == DOMAIN db.chats \cup DOMAIN db0.chats \cup {GhostChat}

\* server.py:277-292
get_chat_by_id ==
    /\ pc \in Served
    /\ \E cid \in PathIds, readOk \in BOOLEAN :
       \E chat_dict \in get_chat(db, cid, readOk) :
         /\ chat_id' = cid
         /\ resp' = IF chat_dict.found
                    THEN Reply(200, "chat", chat_dict.id, "", NoneVal)
                    ELSE Reply(404, "error", NoneVal, "", NoneVal)
    /\ db0' = db
    /\ pc' = "read"
    /\ UNCHANGED <<directVars, db, data, model, message, history, full_response, chat_created, chunk,
                   cs, upstream, frames, response, caller, cacheVars, configVars>>

\* server.py:305-309, the reply for what delete_chat returned
DeleteReply(success) ==
    IF success THEN Reply(200, "success", NoneVal, "", NoneVal)
    ELSE Reply(500, "error", NoneVal, "", NoneVal)

\* server.py:294-309
delete_chat_by_id ==
    /\ pc \in Served
    /\ Len(SelectSeq(db.log, LAMBDA w : w.op = "delete_chat")) < MaxDeletes
    /\ \E cid \in PathIds, ok \in BOOLEAN :
         LET r == delete_chat(db, cid, ok)
         IN  /\ chat_id' = cid
             /\ db' = r.db
             /\ resp' = DeleteReply(r.returned)
    /\ db0' = db
    /\ pc' = "deleted"
    /\ UNCHANGED <<directVars, data, model, message, history, full_response, chat_created, chunk,
                   cs, upstream, frames, response, caller, cacheVars, configVars>>

(***************************************************************************)
(* Backend/database.py called by itself: a caller appends messages to      *)
(* chats and reads them back, on a clock that may or may not have moved    *)
(* between two readings.                                                   *)
(***************************************************************************)
Roles == {"user", "assistant"}

\* the clock as the next call finds it
Clocks(d) == { [d EXCEPT !.tick = t] : t \in {0, 1} }

InitStorage ==
    /\ InitChat({Db1}, {NoBody})
    /\ InitCache
    /\ InitDirect
    /\ InitConfig({"llama3"}, {NoEnv})

\* database.py:167-203  add_message(chat_id, role, content)
append_message ==
    /\ Len(db.log) < MaxAppends
    /\ \E cid \in PathIds, role \in Roles, d \in Clocks(db), ok \in BOOLEAN, updOk \in BOOLEAN :
         IF ok /\ ForeignKeyOk(d, cid)
         THEN /\ db' = add_message(d, cid, role, "Hello", updOk)
              /\ dbcall' = [NoStorageCall EXCEPT !.op = "add_message", !.chat_id = cid,
                                               !.returned = add_message_id(d),
                                               !.before = d.chats[cid].updated_at]
         ELSE /\ db' = add_message_raise(d, cid, role)
              /\ dbcall' = [NoStorageCall EXCEPT !.op = "add_message", !.chat_id = cid,
                                               !.raised = TRUE]
    /\ UNCHANGED <<db0, pc, data, model, message, chat_id, history, full_response,
                   chat_created, chunk, cs, upstream, frames, resp, response, caller,
                   cacheVars, configVars, threadVars, streamVars, probeVars, turnVars>>

\* database.py:246-271  get_chat_messages(chat_id)
read_messages ==
    /\ \E cid \in PathIds, readOk \in BOOLEAN :
       \E messages \in get_chat_messages(db, cid, readOk) :
         dbcall' = [NoStorageCall EXCEPT !.op = "get_chat_messages", !.chat_id = cid,
                                      !.found = readOk, !.rows = messages]
    /\ UNCHANGED <<chatVars, cacheVars, configVars, threadVars, streamVars, probeVars, turnVars>>

\* database.py:205-244  get_chat(chat_id)
read_chat ==
    /\ \E cid \in PathIds, readOk \in BOOLEAN :
       \E chat_dict \in get_chat(db, cid, readOk) :
         dbcall' = [NoStorageCall EXCEPT !.op = "get_chat", !.chat_id = cid,
                                      !.found = chat_dict.found, !.rows = chat_dict.messages]
    /\ UNCHANGED <<chatVars, cacheVars, configVars, threadVars, streamVars, probeVars, turnVars>>

(***************************************************************************)
(* ollama_client.py:55-89  get_models run by several request threads on    *)
(* the shared client (server.py:103; no lock in the class).  A thread can  *)
(* be suspended between any two statements; each action below is one       *)
(* statement, or a run of statements that reads the cache once.            *)
(***************************************************************************)
\* line 65: current_time = time.time()
get_models_enter(t) ==
    /\ workers[t].pc \in {"out", "returned"}
    /\ entered < MaxCalls
    /\ \E force_refresh \in BOOLEAN :
         workers' = [workers EXCEPT ![t] = [NoWorker EXCEPT !.pc = "check",
                                                            !.force_refresh = force_refresh,
                                                            !.current_time = wallclock]]
    /\ entered' = entered + 1
    /\ UNCHANGED <<models_cache, origin>>

\* lines 68-72: the cache test and the return of the cached data
get_models_check(t) ==
    /\ workers[t].pc = "check"
    /\ workers' = [workers EXCEPT ![t] =
                     IF CacheValid(models_cache, @.force_refresh, @.current_time)
                     THEN [@ EXCEPT !.pc = "returned", !.cached = TRUE,
                                    !.compared = models_cache.timestamp,
                                    !.captured = origin,
                                    !.ret = [kind |-> "models", val |-> models_cache.data]]
                     ELSE [@ EXCEPT !.pc = "get"]]
    /\ UNCHANGED <<models_cache, origin, entered>>

\* lines 76-77 and 82-89: the request, and the returns that store nothing
get_models_request(t) ==
    /\ workers[t].pc = "get"
    /\ \E r \in TagsOutcomes :
         workers' = [workers EXCEPT ![t] =
                       IF r.kind \in {"ok", "body"}
                       THEN [@ EXCEPT !.pc = "timestamp", !.r = r]
                       ELSE [@ EXCEPT !.pc = "returned", !.r = r, !.ret = Loaded(r)]]
    /\ UNCHANGED <<models_cache, origin, entered>>

\* line 79: self.models_cache["timestamp"] = current_time
get_models_timestamp(t) ==
    /\ workers[t].pc = "timestamp"
    /\ models_cache' = [models_cache EXCEPT !.timestamp = workers[t].current_time]
    /\ workers' = [workers EXCEPT ![t].pc = "data"]
    /\ UNCHANGED <<origin, entered>>

\* line 80: self.models_cache["data"] = response.json(); json() may raise
get_models_data(t) ==
    /\ workers[t].pc = "data"
    /\ IF workers[t].r.kind = "ok"
       THEN /\ models_cache' = [models_cache EXCEPT !.data = workers[t].r.val]
            /\ origin' = workers[t].current_time
            /\ workers' = [workers EXCEPT ![t].pc = "return"]
       ELSE /\ workers' = [workers EXCEPT ![t].pc = "returned",
                                          ![t].ret = Loaded(workers[t].r)]
            /\ UNCHANGED <<models_cache, origin>>
    /\ UNCHANGED entered

\* line 81: return self.models_cache["data"]
get_models_return(t) ==
    /\ workers[t].pc = "return"
    /\ workers' = [workers EXCEPT ![t].pc = "returned",
                                  ![t].ret = [kind |-> "models", val |-> models_cache.data]]
    /\ UNCHANGED <<models_cache, origin, entered>>

get_models_step ==
    /\ \E t \in Threads :
         \/ get_models_enter(t)
         \/ get_models_check(t)
         \/ get_models_request(t)
         \/ get_models_timestamp(t)
         \/ get_models_data(t)
         \/ get_models_return(t)
    /\ UNCHANGED <<dbcall, streamVars, wallclock, prev, last, chatVars, configVars, probeVars, turnVars>>

(***************************************************************************)
(* ollama_client.py:156-226  chat_stream iterated by a caller of its own   *)
(* that takes every chunk the generator yields until it is exhausted.      *)
(***************************************************************************)
\* next(chat_stream("llama3", "Hello")): the body runs up to its next yield
chat_stream_next ==
    /\ pc = "idle"
    /\ \E r \in chat_stream(cs) :
         /\ upstream' = IF cs.phase = "new"
                        THEN Post(upstream,
                                  chat_stream_request_body("llama3", "Hello", <<>>, None, None),
                                  r.chunk \in {Chunk("error", "connection"),
                                               Chunk("error", "status")})
                        ELSE upstream
         /\ chunk' = r.chunk
         /\ cs' = r.cs
         /\ emitted' = IF r.chunk.kind \in {"stop", "raise"}
                       THEN emitted
                       ELSE Append(emitted, r.chunk)
    /\ UNCHANGED <<db0, db, pc, data, model, message, chat_id, history, full_response,
                   chat_created, frames, resp, response, caller, cacheVars, configVars,
                   dbcall, threadVars, probeVars, turnVars>>

(***************************************************************************)
(* server.py:373-421  connect_server: a client of its own is built for the *)
(* URL of the request and asked for the model list; the server is saved    *)
(* when the list came back.                                                *)
(***************************************************************************)
\* request bodies of POST /api/server/connect
ConnectRequests ==
    { [body |-> FALSE, keys |-> {}, name |-> "", ip |-> "", port |-> "", is_default |-> FALSE] }
        \cup { [body |-> TRUE, keys |-> k, name |-> "lab", ip |-> ip, port |-> "11434",
                is_default |-> d] :
                  k \in { {"name", "ip"}, {"name", "ip", "port"},
                          {"name", "ip", "port", "is_default"} },
                  ip \in {"localhost", "10.0.0.2"}, d \in BOOLEAN }

\* variant: without the UPDATE of lines 344-345
save_server_NoReset(rows, id, server_name, server_url, is_default) ==
    Append(rows, [id |-> id, name |-> server_name, url |-> server_url,
                  is_default |-> IF is_default THEN 1 ELSE 0])

\* save_server, the path that commits (database.py:336-354)
save_server(rows, id, server_name, server_url, is_default) ==
    Append(IF is_default THEN [i \in DOMAIN rows |-> [rows[i] EXCEPT !.is_default = 0]]
           ELSE rows,
           [id |-> id, name |-> server_name, url |-> server_url,
            is_default |-> IF is_default THEN 1 ELSE 0])

\* variant: the module's client is pointed at the URL and asked
Probe_SharedClient(shared, probe_url, current_time, r) ==
    LET client == [api_url |-> probe_url,
                   models_cache |-> IF CacheValid(shared.models_cache, FALSE, current_time)
                                    THEN shared.models_cache
                                    ELSE Reload(shared.models_cache, current_time, r)]
    IN  [shared |-> client, test |-> client]

\* server.py:404-405
\*   test_client = ollama_client.__class__(api_url=url)
\*   result = test_client.get_models()
\* the cache of the new client holds nothing, get_models goes to the server
Probe(shared, probe_url, current_time, r) ==
    LET client == OllamaClient(probe_url)
    IN  [shared |-> shared,
         test |-> [client EXCEPT !.models_cache = Reload(@, current_time, r)]]

connect_server ==
    /\ probed < MaxProbes
    /\ probed' = probed + 1
    /\ \E dat \in ConnectRequests, r \in TagsOutcomes, saveOk \in BOOLEAN :
         IF ~dat.body \/ ~({"name", "ip", "port"} \subseteq dat.keys)
         THEN /\ resp' = Reply(400, "error", NoneVal, "", NoneVal)        \* lines 390-391
              /\ UNCHANGED <<api_url, models_cache, test_client, url, servers>>
         ELSE LET probe_url == "http://" \o dat.ip \o ":" \o dat.port
                  is_default == IF "is_default" \in dat.keys THEN dat.is_default ELSE FALSE
                  p == Probe([api_url |-> api_url, models_cache |-> models_cache],
                             probe_url, wallclock, r)
              IN  /\ url' = probe_url
                  /\ api_url' = p.shared.api_url
                  /\ models_cache' = p.shared.models_cache
                  /\ test_client' = p.test
                  /\ IF Loaded(r).kind = "error"
                     THEN /\ resp' = Reply(500, "error", NoneVal, "", NoneVal)   \* line 408
                          /\ UNCHANGED servers
                     ELSE IF saveOk
                     THEN /\ servers' = save_server(servers, "server" \o ToString(probed + 1),
                                                    dat.name, probe_url, is_default)
                          /\ resp' = Reply(200, "connected", NoneVal, Loaded(r).val,
                                           "server" \o ToString(probed + 1))
                     ELSE /\ resp' = Reply(500, "error", NoneVal, "", NoneVal)   \* lines 419-421
                          /\ UNCHANGED servers
    /\ UNCHANGED <<db0, db, pc, data, model, message, chat_id, history, full_response,
                   chat_created, chunk, cs, upstream, frames, response, caller,
                   wallclock, prev, last, configVars, dbcall, threadVars, streamVars, turnVars>>

(***************************************************************************)
(* server.py:183-264  two requests inside stream_chat at once, each served *)
(* by its own thread.  model, message and chat_id are locals of the        *)
(* invocation of stream_chat, full_response and new_chat_id are locals of  *)
(* its generate; the database is shared, and every storage call is one     *)
(* transaction on a connection of its own (database.py:105-110).           *)
(* In a turn record, wrote lists the ids the turn's add_message calls      *)
(* returned and deltas the contents chat_stream handed to the turn.        *)
(***************************************************************************)
OtherChat == uuid4(Db1)

\* storage at the start: two conversations
DbTwo == create_chat(Db1, "Other", "llama3")

\* the request of each thread: its message, and the chat_id values it may carry
TurnMessage(t) == IF t = 1 THEN "Hello" ELSE "Hallo"
TurnChatIds(t) == IF t = 1 THEN {NoneVal, OldChat} ELSE {NoneVal, OtherChat}

TurnChunks == { Chunk("content", d) : d \in {"Hi", " there"} }
                  \cup { Chunk("error", "upstream") }

\* variant: chat_id is a module global, one cell for all requests
nonlocal_chat_id_Global(t) == 1

\* line 229, nonlocal chat_id: the cell generate reads and rebinds is the
\* local of the invocation of stream_chat that defined it
nonlocal_chat_id(t) == t

\* lines 199-215 have run for both requests
InitTurns ==
    /\ InitChat({DbTwo}, {NoBody})
    /\ InitCache
    /\ InitConfig({"llama3"}, {NoEnv})
    /\ InitProbe
    /\ dbcall = NoStorageCall
    /\ workers = [t \in Threads |-> NoWorker]
    /\ origin = 0
    /\ entered = 0
    /\ emitted = <<>>
    /\ \E ids \in [Threads -> {NoneVal, OldChat, OtherChat}] :
         /\ \A t \in Threads : ids[t] \in TurnChatIds(t)
         /\ turns = [t \in Threads |->
                        [NoTurn EXCEPT !.pc = "START", !.supplied = ids[t],
                                       !.chat_id = ids[t], !.message = TurnMessage(t)]]

TurnUnchanged ==
    UNCHANGED <<db0, pc, data, model, message, chat_id, history, full_response,
                chat_created, chunk, cs, upstream, frames, resp, response, caller,
                cacheVars, configVars, dbcall, threadVars, streamVars, probeVars>>

\* lines 223-225: create_chat
turn_create(t) ==
    /\ turns[t].pc = "START"
    /\ ~Truthy(turns[nonlocal_chat_id(t)].chat_id)
    /\ \E cOk \in BOOLEAN :
         IF cOk
         THEN /\ db' = create_chat(db, Title(turns[t].message), "llama3")
              /\ turns' = [turns EXCEPT ![t].new_chat_id = uuid4(db), ![t].pc = "CREATED"]
         ELSE /\ db' = create_chat_raise(db)
              /\ turns' = [turns EXCEPT ![t].pc = "CRASHED"]
    /\ TurnUnchanged

\* lines 227-231, or 232-234: add_message of the user message
turn_user(t) ==
    /\ \/ turns[t].pc = "CREATED"
       \/ turns[t].pc = "START" /\ Truthy(turns[nonlocal_chat_id(t)].chat_id)
    /\ LET created == turns[t].pc = "CREATED"
           cell == nonlocal_chat_id(t)
           cid == IF created THEN turns[t].new_chat_id ELSE turns[cell].chat_id
       IN  \E uOk, updOk \in BOOLEAN :
             IF uOk /\ ForeignKeyOk(db, cid)
             THEN /\ db' = add_message(db, cid, "user", turns[t].message, updOk)
                  /\ turns' = [turns EXCEPT
                        ![cell].chat_id = cid,
                        ![t].wrote = Append(@, add_message_id(db)),
                        ![t].frames = IF created THEN Append(@, Frame("chat_id", cid)) ELSE @,
                        ![t].pc = "STREAMING"]
             ELSE /\ db' = add_message_raise(db, cid, "user")
                  /\ turns' = [turns EXCEPT ![t].pc = "CRASHED"]
    /\ TurnUnchanged

\* lines 238-252: one chunk of the turn's own chat_stream
turn_chunk(t) ==
    /\ turns[t].pc = "STREAMING"
    /\ turns[t].lines < MaxTurnLines
    /\ \E c \in TurnChunks :
         IF c.kind = "error"
         THEN turns' = [turns EXCEPT ![t].frames = Append(@, Frame("error", c.val)),
                                     ![t].pc = "FAILED"]
         ELSE turns' = [turns EXCEPT ![t].full_response = Accumulate(@, c.val),
                                     ![t].deltas = Append(@, c.val),
                                     ![t].frames = Append(@, Frame("content", c.val)),
                                     ![t].lines = @ + 1]
    /\ UNCHANGED db
    /\ TurnUnchanged

\* lines 254-262: the end of the turn's chat_stream
turn_complete(t) ==
    /\ turns[t].pc = "STREAMING"
    /\ LET cid == turns[nonlocal_chat_id(t)].chat_id
       IN  \E aOk, updOk \in BOOLEAN :
             IF aOk /\ ForeignKeyOk(db, cid)
             THEN /\ db' = add_message(db, cid, "assistant", turns[t].full_response, updOk)
                  /\ turns' = [turns EXCEPT
                        ![t].wrote = Append(@, add_message_id(db)),
                        ![t].frames = Append(@, Frame("done", add_message_id(db))),
                        ![t].pc = "DONE"]
             ELSE /\ db' = add_message_raise(db, cid, "assistant")
                  /\ turns' = [turns EXCEPT
                        ![t].frames = Append(@, Frame("error", "storage")),
                        ![t].pc = "FAILED"]
    /\ TurnUnchanged

NextTurns ==
    \E t \in Threads :
        \/ turn_create(t)
        \/ turn_user(t)
        \/ turn_chunk(t)
        \/ turn_complete(t)

SpecTurns == InitTurns /\ [][NextTurns]_vars

Next ==
    \/ chat
    \/ stream_chat
    \/ generate_resolve
    \/ chat_stream_blank
    \/ generate_next

Spec == Init /\ [][Next]_vars

NextClient ==
    \/ get_models
    \/ Tick

SpecClient == InitClient /\ [][NextClient]_vars

SpecParams == InitParams /\ [][Next]_vars

NextChats ==
    \/ Next
    \/ get_chat_by_id
    \/ delete_chat_by_id

SpecChats == InitChats /\ [][NextChats]_vars

NextUpstream ==
    \/ Next
    \/ get_models

SpecUpstream == InitUpstream /\ [][NextUpstream]_vars

NextCancel ==
    \/ Next
    \/ disconnect

SpecCancel == Init /\ [][NextCancel]_vars

\* The server resumes generate as long as the caller reads the response
\* (server.py:264), and each resumption of chat_stream returns: the body has
\* finitely many lines and requests.post has timeout=60 (ollama_client.py:205).
Fairness ==
    /\ WF_vars(generate_resolve)
    /\ WF_vars(generate_next)

SpecLive == Init /\ [][Next]_vars /\ Fairness

\* storage at the start of the runs that delete: two conversations with
\* messages
DbBoth ==
    add_message(add_message(add_message(DbTwo, OldChat, "user", "Q", TRUE),
                            OtherChat, "user", "Q2", TRUE),
                OldChat, "assistant", "A", TRUE)

InitDelete ==
    /\ InitChat({DbBoth}, {NoBody})
    /\ InitCache
    /\ InitDirect
    /\ InitConfig({"llama3"}, {NoEnv})

\* database.py:296-322  delete_chat(chat_id)
remove_chat ==
    /\ Len(SelectSeq(db.log, LAMBDA w : w.op = "delete_chat")) < MaxDeletes
    /\ \E cid \in PathIds, ok \in BOOLEAN :
         LET r == delete_chat(db, cid, ok)
         IN  /\ db' = r.db
             /\ dbcall' = [NoStorageCall EXCEPT !.op = "delete_chat", !.chat_id = cid,
                                              !.returned = IF r.returned THEN "True"
                                                           ELSE "False"]
    /\ UNCHANGED <<db0, pc, data, model, message, chat_id, history, full_response,
                   chat_created, chunk, cs, upstream, frames, resp, response, caller,
                   cacheVars, configVars, threadVars, streamVars, probeVars, turnVars>>

NextDelete ==
    \/ remove_chat
    \/ read_messages
    \/ read_chat

SpecDelete == InitDelete /\ [][NextDelete]_vars

\* database.py:76-79 and 92-103: init_db on a database that has the servers
\* table, the SELECT COUNT(*) and add_default_server
init_db(rows) ==
    IF Len(SelectSeq(rows, LAMBDA r : r.is_default = 1)) = 0
    THEN Append(rows, [id |-> "server" \o ToString(Len(rows)),
                       name |-> "Lokaler Ollama-Server", url |-> OLLAMA_API_URL,
                       is_default |-> 1])
    ELSE rows

\* save_server, the path that raises: the UPDATE and the INSERT are one
\* transaction, rolled back (database.py:355-359)
save_server_raise(rows) == rows

\* init_db has run on a new database file
InitServers ==
    /\ InitChat({EmptyDb}, {NoBody})
    /\ InitCache
    /\ InitConfig({"llama3"}, {NoEnv})
    /\ api_url = OllamaClient(NoneVal).api_url
    /\ test_client = NoClient
    /\ url = NoneVal
    /\ servers = init_db(<<>>)
    /\ probed = 0
    /\ dbcall = NoStorageCall
    /\ workers = [t \in Threads |-> NoWorker]
    /\ origin = 0
    /\ entered = 0
    /\ emitted = <<>>
    /\ turns = [t \in Threads |-> NoTurn]

ServersUnchanged ==
    UNCHANGED <<chatVars, cacheVars, configVars, threadVars, streamVars, turnVars,
                api_url, test_client, url, probed>>

\* server.py:74: the server starts again and runs init_db
restart ==
    /\ servers' = init_db(servers)
    /\ dbcall' = [NoStorageCall EXCEPT !.op = "init_db"]
    /\ ServersUnchanged

\* database.py:324-362  save_server(name, url, is_default)
store_server ==
    /\ \E server_name \in {"A", "B"}, server_url \in {OLLAMA_API_URL, "http://10.0.0.2:11434"},
          is_default \in BOOLEAN, ok \in BOOLEAN :
         LET server_id == "server" \o ToString(Len(servers))
         IN  IF ok
             THEN /\ Len(servers) < MaxServers
                  /\ servers' = save_server(servers, server_id, server_name, server_url,
                                            is_default)
                  /\ dbcall' = [NoStorageCall EXCEPT !.op = "save_server",
                                                   !.returned = server_id,
                                                   !.found = is_default]
             ELSE /\ servers' = save_server_raise(servers)
                  /\ dbcall' = [NoStorageCall EXCEPT !.op = "save_server", !.raised = TRUE,
                                                   !.found = is_default]
    /\ ServersUnchanged

NextServers ==
    \/ restart
    \/ store_server

SpecServers == InitServers /\ [][NextServers]_vars

NextStorage ==
    \/ append_message
    \/ read_messages
    \/ read_chat

SpecStorage == InitStorage /\ [][NextStorage]_vars

NextProbe ==
    \/ connect_server
    \/ get_models

SpecProbe == InitClient /\ [][NextProbe]_vars

NextStream ==
    \/ chat_stream_next

SpecStream == InitClient /\ [][NextStream]_vars

NextThreads ==
    \/ get_models_step
    \/ Tick

\* the client as the threads find it: just constructed, or after one call
\* of get_models has loaded the model list
InitThreads ==
    /\ InitChat({EmptyDb}, {NoBody})
    /\ InitConfig({"llama3"}, {NoEnv})
    /\ wallclock = StartTime
    /\ prev = NoCall
    /\ last = NoCall
    /\ \E cache \in {[timestamp |-> 0, data |-> NoModels],
                     Reload([timestamp |-> 0, data |-> NoModels], StartTime,
                            [kind |-> "ok", val |-> "tags-1"])} :
         /\ models_cache = cache
         /\ origin = cache.timestamp
    /\ InitProbe
    /\ dbcall = NoStorageCall
    /\ workers = [t \in Threads |-> NoWorker]
    /\ entered = 0
    /\ emitted = <<>>
    /\ turns = [t \in Threads |-> NoTurn]

SpecThreads == InitThreads /\ [][NextThreads]_vars

(***************************************************************************)
(* Vocabulary of the properties                                            *)
(***************************************************************************)
Streaming == resp.kind = "event-stream"          \* the request is served by stream_chat
Blocking == pc = "returned"                      \* the request was served by chat
NoIdSupplied == ~Truthy(Get(data, "chat_id"))

FramesOf(type) == SelectSeq(frames, LAMBDA f : f.type = type)
TerminalFrames == SelectSeq(frames, LAMBDA f : f.type \in {"done", "error"})
ContentDeltas == [i \in 1..Len(FramesOf("content")) |-> FramesOf("content")[i].val]

\* write calls of the log, by operation, role and outcome
Calls(op, role) == SelectSeq(db.log, LAMBDA w : w.op = op /\ w.role = role)
Committed(op, role) == SelectSeq(db.log, LAMBDA w : w.op = op /\ w.role = role /\ w.ok)

\* the conversation as a caller reads it back, for each order the SELECT can return
Transcripts(cid) == { RoleContent(rows) : rows \in get_chat_messages(db, cid, TRUE) }

Untouched == db = db0

\* rows of the messages table written since the request arrived
NewRows == SubSeq(db.messages, Len(db0.messages) + 1, Len(db.messages))

(***************************************************************************)
(* C1  A request whose body is absent or lacks the key model or the key    *)
(* message is answered 400 by chat and by stream_chat, and in that run no  *)
(* request is posted upstream and no storage write is made.                *)
(***************************************************************************)
C1_RejectedBeforeAnyIO ==
    (pc # "idle" /\ (~data.body \/ "model" \notin data.keys \/ "message" \notin data.keys))
        => /\ pc = "rejected"
           /\ resp.status = 400
           /\ upstream = <<>>
           /\ db.log = <<>>
           /\ Untouched
           /\ frames = <<>>

C1_Witness ==
    /\ pc = "rejected"
    /\ data.body
    /\ "model" \in data.keys
    /\ "message" \notin data.keys

(***************************************************************************)
(* C2  A first turn without conversation id that completes successfully,   *)
(* blocking or streaming, creates exactly one conversation; its title is   *)
(* the message when the message has at most 50 characters, else the first  *)
(* 50 characters followed by "..."; read back, its messages are the user   *)
(* message then the assistant message.                                     *)
(***************************************************************************)
CompletedFirstTurn ==
    /\ NoIdSupplied
    /\ \/ pc = "DONE"
       \/ Blocking /\ resp.kind = "ok"

AssistantText == IF Blocking THEN resp.response ELSE full_response

C2_FirstTurnRoundTrip ==
    CompletedFirstTurn =>
        /\ Len(Calls("create_chat", "")) = 1
        /\ Len(Committed("create_chat", "")) = 1
        /\ chat_id = Committed("create_chat", "")[1].chat_id
        /\ chat_id \in DOMAIN db.chats
        /\ db.chats[chat_id].title =
              (IF Len(message) <= 50 THEN message ELSE SubSeq(message, 1, 50) \o "...")
        /\ Transcripts(chat_id) =
              { << [role |-> "user", content |-> message],
                   [role |-> "assistant", content |-> AssistantText] >> }

C2_Witness ==
    /\ pc = "DONE"
    /\ NoIdSupplied
    /\ Len(message) > TitleLimit
    /\ full_response = "Hi there"

(***************************************************************************)
(* C3  When a streaming turn ends successfully, the content deltas sent to *)
(* the caller, concatenated in the order sent, are the content of the      *)
(* assistant message stored, and exactly one done frame, carrying that     *)
(* message's id, is sent, after the last content frame.                    *)
(***************************************************************************)
C3_DeltasEqualStoredAnswer ==
    pc = "DONE" =>
        /\ Len(FramesOf("done")) = 1
        /\ frames[Len(frames)].type = "done"
        /\ \E i \in 1..Len(db.messages) :
             /\ db.messages[i].id = frames[Len(frames)].val
             /\ db.messages[i].chat_id = chat_id
             /\ db.messages[i].role = "assistant"
             /\ db.messages[i].content = Concat(ContentDeltas)
             /\ \A j \in 1..Len(db.messages) :
                  db.messages[j].id = db.messages[i].id => j = i

C3_Witness ==
    /\ pc = "DONE"
    /\ ContentDeltas = <<"Hi", " there">>

(***************************************************************************)
(* C4  In a streaming turn, when chat_stream hands over a chunk with an    *)
(* error (malformed line, status other than 200, connection failure), at   *)
(* any position, the relay sends exactly one error frame and no done       *)
(* frame, stores no assistant message, and sends nothing afterwards.       *)
(***************************************************************************)
C4_State ==
    chunk.kind = "error" =>
        /\ pc = "FAILED"
        /\ Len(FramesOf("error")) = 1
        /\ FramesOf("done") = <<>>
        /\ frames[Len(frames)] = Frame("error", chunk.val)
        /\ Calls("add_message", "assistant") = <<>>
        /\ \A i \in 1..Len(NewRows) : NewRows[i].role # "assistant"

C4_ErrorChunkEndsTurn ==
    /\ []C4_State
    /\ [][chunk.kind = "error" => (frames' = frames /\ db' = db)]_vars

C4_Witness ==
    /\ chunk = Chunk("error", "parse")
    /\ pc = "FAILED"
    /\ Len(FramesOf("content")) = 2
    /\ full_response # ""

(***************************************************************************)
(* C5  In every streaming turn at most one terminal frame (done or error)  *)
(* is sent, so done and error exclude each other, and no frame follows a   *)
(* terminal frame, whatever chunks arrive and whatever storage does.       *)
(***************************************************************************)
C5_OneTerminalFrameLast ==
    /\ Len(TerminalFrames) <= 1
    /\ \A i \in 1..Len(frames) :
         frames[i].type \in {"done", "error"} => i = Len(frames)
    /\ ~(FramesOf("done") # <<>> /\ FramesOf("error") # <<>>)

C5_Witness ==
    /\ pc = "FAILED"
    /\ frames[Len(frames)] = Frame("error", "storage")
    /\ FramesOf("content") # <<>>

(***************************************************************************)
(* C6  As claimed: in a streaming turn a chat_id frame is sent if and only *)
(* if the request supplied no conversation id; it is sent once, carries    *)
(* the id of the conversation this call created, and precedes every        *)
(* content, done and error frame; the conversation is created once.        *)
(* The claim is read at the states where generate has left its first       *)
(* section (lines 219-235), by reaching the for loop or by an exception.   *)
(***************************************************************************)
Resolved == Streaming /\ pc \in {"STREAMING", "DONE", "FAILED", "CRASHED"}

ChatIdFrameWellFormed ==
    /\ Len(FramesOf("chat_id")) <= 1
    /\ Len(Calls("create_chat", "")) <= 1
    /\ FramesOf("chat_id") # <<>> =>
         /\ frames[1].type = "chat_id"
         /\ Len(Committed("create_chat", "")) = 1
         /\ frames[1].val = Committed("create_chat", "")[1].chat_id
         /\ frames[1].val \in DOMAIN db.chats
         /\ frames[1].val = chat_id

C6_Original ==
    Resolved =>
        /\ (FramesOf("chat_id") # <<>>) <=> NoIdSupplied
        /\ ChatIdFrameWellFormed

(***************************************************************************)
(* C6, amended  A chat_id frame is sent if and only if the request         *)
(* supplied no conversation id and both create_chat and the add_message of *)
(* the user message committed (when either raises, the generator ends      *)
(* without any frame); the rest of the claim stands.                       *)
(***************************************************************************)
C6_ChatIdFrameIffCreatedAndStored ==
    /\ Resolved =>
         ((FramesOf("chat_id") # <<>>) <=>
             /\ NoIdSupplied
             /\ Committed("create_chat", "") # <<>>
             /\ Committed("add_message", "user") # <<>>)
    /\ (Resolved /\ NoIdSupplied /\ FramesOf("chat_id") = <<>>) =>
         (pc = "CRASHED" /\ frames = <<>>)
    /\ Streaming => ChatIdFrameWellFormed

C6_Witness ==
    /\ pc = "DONE"
    /\ NoIdSupplied
    /\ Len(frames) = 4
    /\ frames[1] = Frame("chat_id", chat_id)

(***************************************************************************)
(* C7  In a streaming turn the user message is stored in the resolved      *)
(* conversation before the streaming request is posted upstream; when the  *)
(* upstream call then fails, the conversation read back still ends with    *)
(* that user message.                                                      *)
(***************************************************************************)
EndsWithUserMessage ==
    \A t \in Transcripts(chat_id) :
        /\ t # <<>>
        /\ t[Len(t)] = [role |-> "user", content |-> message]

C7_Posted ==
    (Streaming /\ upstream # <<>>) =>
        /\ Len(Committed("add_message", "user")) = 1
        /\ Committed("add_message", "user")[1].chat_id = chat_id
        /\ \E i \in 1..Len(db.messages) :
             /\ db.messages[i].chat_id = chat_id
             /\ db.messages[i].role = "user"
             /\ db.messages[i].content = message

C7_UserMessageStoredBeforeUpstream ==
    /\ []C7_Posted
    /\ [][(Streaming /\ upstream' # upstream) =>
             (Committed("add_message", "user") # <<>> /\ EndsWithUserMessage)]_vars
    /\ []((Streaming /\ pc = "FAILED" /\ chunk.kind \in {"error", "shape", "raise"})
             => EndsWithUserMessage)

C7_Witness ==
    /\ pc = "FAILED"
    /\ chunk = Chunk("error", "status")
    /\ Get(data, "chat_id") = OldChat
    /\ \E t \in Transcripts(chat_id) : Len(t) = 3

TwoCalls == prev.res.kind # "none" /\ last.res.kind # "none"

SameSnapshotOneFetch == last.res = prev.res /\ ~(prev.live /\ last.live)

C10_ForcedRefreshGoesUpstream ==
    (last.res.kind # "none" /\ last.force) =>
        /\ last.live
        /\ last.res.kind = "models" =>
             models_cache = [timestamp |-> last.time, data |-> last.res.val]

C10_Witness ==
    /\ TwoCalls
    /\ last.force
    /\ prev.res.kind = "models"
    /\ last.time > prev.ts
    /\ last.time - prev.ts < models_cache_time
    /\ last.res.kind = "models"
    /\ last.res # prev.res
    /\ models_cache.timestamp = last.time

(***************************************************************************)
(* C11  When the live request of get_models fails (status other than 200,  *)
(* exception of requests.get, or status 200 with a body response.json()    *)
(* cannot decode), the call returns an error result and both fields of     *)
(* models_cache, timestamp and data, are what they were before the call.   *)
(***************************************************************************)
C11_FailedRefreshLeavesCache ==
    [][(last'.live /\ last'.res.kind = "error")
          => models_cache' = models_cache]_vars

(***************************************************************************)
(* C12  In a blocking turn, when create_chat or add_message raises after   *)
(* the upstream call returned a response without error, the handler's      *)
(* reply is a warning that carries the generated text and the storage      *)
(* error, with status 200, not an error-only reply; and a warning is       *)
(* returned in no other case.                                              *)
(***************************************************************************)
WriteRaised == \E i \in 1..Len(db.log) : ~db.log[i].ok

WriteOrder ==
    (IF NoIdSupplied THEN << <<"create_chat", "">> >> ELSE << >>)
        \o << <<"add_message", "user">>, <<"add_message", "assistant">> >>

WritesMade == [i \in 1..Len(db.log) |-> <<db.log[i].op, db.log[i].role>>]

C13_BlockingWritesFollowUpstream ==
    /\ (~Streaming /\ db.log # <<>>) =>
          (Blocking /\ Len(upstream) = 1 /\ response.kind \in {"ok", "nomsg"})
    /\ Blocking =>
          /\ Len(upstream) = 1
          /\ ~upstream[1].stream
          /\ response.kind = "error" =>
                /\ resp.status = 500
                /\ resp.kind = "error"
                /\ Untouched
          /\ response.kind # "error" =>
                /\ WritesMade # <<>>
                /\ Len(WritesMade) <= Len(WriteOrder)
                /\ WritesMade = SubSeq(WriteOrder, 1, Len(WritesMade))
                /\ \A i \in 1..(Len(db.log) - 1) : db.log[i].ok
                /\ \A i \in 1..Len(NewRows) :
                      /\ i <= 2
                      /\ NewRows[i].role = <<"user", "assistant">>[i]
                      /\ NewRows[i].chat_id = NewRows[1].chat_id
                /\ \A i, j \in 1..Len(NewRows) :
                      i < j => NewRows[i].timestamp < NewRows[j].timestamp

C13_Witness ==
    /\ Blocking
    /\ NoIdSupplied
    /\ resp.kind = "ok"
    /\ Len(db.log) = 3
    /\ Len(NewRows) = 2

(***************************************************************************)
(* C14  As claimed: when the caller disconnects during a streaming turn,   *)
(* before chat_stream is exhausted, no assistant message is stored for the *)
(* turn, complete or partial, no further frame reaches the caller, and the *)
(* user message stored earlier stays in storage.                           *)
(***************************************************************************)
AssistantRows == SelectSeq(NewRows, LAMBDA r : r.role = "assistant")

UserMessageKept ==
    Committed("add_message", "user") # <<>> =>
        /\ NewRows # <<>>
        /\ NewRows[1].role = "user"
        /\ NewRows[1].content = message

C14_Original ==
    /\ [](caller = "gone" =>
            /\ AssistantRows = <<>>
            /\ UserMessageKept)
    /\ [][caller = "gone" => frames' = frames]_vars

(***************************************************************************)
(* C14, amended  After the caller has disconnected no frame reaches it and *)
(* the user message stored earlier stays in storage.  Once the write of a  *)
(* frame has failed and the generator is closed, nothing more is written:  *)
(* no assistant message is stored for the turn.  A partial answer is never *)
(* stored: an assistant message is stored only when chat_stream was        *)
(* exhausted, with all the text accumulated.  As long as no write has      *)
(* failed (generate writes only when a content chunk arrives) the          *)
(* generator runs on after the disconnect, and when chat_stream is then    *)
(* exhausted the complete assistant message is stored.                     *)
(***************************************************************************)
C14_NoPartialAnswerAfterDisconnect ==
    /\ [](caller = "gone" =>
            /\ UserMessageKept
            /\ Len(AssistantRows) <= 1
            /\ AssistantRows # <<>> =>
                  /\ pc = "DONE"
                  /\ chunk.kind = "stop"
                  /\ AssistantRows[1].content = full_response
            /\ pc = "CLOSED" =>
                  /\ AssistantRows = <<>>
                  /\ Calls("add_message", "assistant") = <<>>)
    /\ [][caller = "gone" => frames' = frames]_vars
    /\ [][pc = "CLOSED" => (db' = db /\ pc' = pc)]_vars

C14_Witness ==
    /\ caller = "gone"
    /\ pc = "CLOSED"
    /\ full_response = "Hi there"
    /\ frames = << Frame("content", "Hi") >>
    /\ UserMessageKept
    /\ Len(NewRows) = 1

(***************************************************************************)
(* C15  A turn, blocking or streaming, that supplies a conversation id for *)
(* which storage holds no conversation or no messages is a turn with empty *)
(* context: the request posted upstream carries the new user message only, *)
(* and the id is never the reason the turn fails: no write of the turn is  *)
(* refused for it, the streaming turn reaches the upstream call, and the   *)
(* blocking turn whose upstream call and storage are sound returns the     *)
(* normal reply.                                                           *)
(***************************************************************************)
EmptyContext ==
    /\ ~Rejected(data)
    /\ Truthy(Get(data, "chat_id"))
    /\ ChatRows(db0, Get(data, "chat_id")) = <<>>

\* a write the database refused because the conversation does not exist
RefusedForId(w) == w.op = "add_message" /\ ~w.ok /\ w.chat_id \notin DOMAIN db.chats

C15_UnknownIdIsEmptyContext ==
    (EmptyContext /\ pc # "idle") =>
        /\ \A i \in 1..Len(upstream) :
              upstream[i].messages = << [role |-> "user", content |-> message] >>
        /\ \A i \in 1..Len(db.log) : ~RefusedForId(db.log[i])
        /\ (pc = "CRASHED") => (\E i \in 1..Len(db.log) : ~db.log[i].ok)

(***************************************************************************)
(* C16  A request in which model or message is present and empty (empty    *)
(* string or null) is answered 400 by chat and by stream_chat, and in that *)
(* run no request is posted upstream and no storage write is made.         *)
(***************************************************************************)
EmptyField ==
    /\ data.body
    /\ {"model", "message"} \subseteq data.keys
    /\ (~Truthy(Get(data, "model")) \/ ~Truthy(Get(data, "message")))

C16_EmptyFieldRejected ==
    (pc # "idle" /\ EmptyField) =>
        /\ pc = "rejected"
        /\ resp.status = 400
        /\ upstream = <<>>
        /\ db.log = <<>>
        /\ Untouched
        /\ frames = <<>>

(***************************************************************************)
(* C17  In every request posted upstream, by chat or by chat_stream, each  *)
(* of temperature and max_tokens (sent as num_predict) is the value the    *)
(* request gave when it gave one, the value 0 included; otherwise the      *)
(* default configured for the requested model; otherwise, the requested    *)
(* model having no configuration, the default configured for               *)
(* DEFAULT_MODEL.  The defaults of one call are those of one model.  (When *)
(* DEFAULT_MODEL has no configuration either there is no configured        *)
(* default to speak of.)                                                   *)
(***************************************************************************)
Configured(m) == m \in DOMAIN MODEL_PARAMS

DefaultsSource == IF Configured(data.model) THEN data.model ELSE DEFAULT_MODEL

C17_ParametersResolvedInOrder ==
    \A i \in 1..Len(upstream) :
        LET sent == upstream[i].options
        IN  /\ "temperature" \in data.keys => sent.temperature = data.temperature
            /\ "max_tokens" \in data.keys => sent.num_predict = data.max_tokens
            /\ Configured(DefaultsSource) =>
                  /\ "temperature" \notin data.keys =>
                        sent.temperature = MODEL_PARAMS[DefaultsSource].temperature
                  /\ "max_tokens" \notin data.keys =>
                        sent.num_predict = MODEL_PARAMS[DefaultsSource].max_tokens
                  /\ data.keys \cap {"temperature", "max_tokens"} = {} =>
                        \E m \in DOMAIN MODEL_PARAMS :
                            /\ sent.temperature = MODEL_PARAMS[m].temperature
                            /\ sent.num_predict = MODEL_PARAMS[m].max_tokens

C17_Witness ==
    /\ Streaming
    /\ upstream # <<>>
    /\ data.model = "phi"
    /\ DEFAULT_MODEL = "mistral"
    /\ data.keys = {"model", "message", "temperature"}
    /\ data.temperature = 0
    /\ upstream[1].options = [temperature |-> 0, num_predict |-> 512]

(***************************************************************************)
(* C18  In a streaming turn in which a storage write raises (create_chat,  *)
(* add_message of the user message, add_message of the assistant message)  *)
(* the caller is sent no done frame, and the last frame it is sent is an   *)
(* error frame.  Read where generate has ended.                            *)
(***************************************************************************)
GenerateEnded == Streaming /\ pc \in {"DONE", "FAILED", "CRASHED"}

C18_StorageFailureEndsInErrorFrame ==
    (GenerateEnded /\ WriteRaised) =>
        /\ FramesOf("done") = <<>>
        /\ frames # <<>>
        /\ frames[Len(frames)].type = "error"

(***************************************************************************)
(* C19  Reading (get_chat_by_id) or deleting (delete_chat_by_id) a         *)
(* conversation by an id storage does not hold is answered not found       *)
(* (404), not success and not a server error, and leaves every stored      *)
(* conversation and message as it was.  Read for the requests whose        *)
(* statement the database executed without error.                          *)
(***************************************************************************)
DeleteExecuted == db.log # <<>> /\ db.log[Len(db.log)].ok

C19_UnknownIdNotFound ==
    (/\ pc \in {"read", "deleted"}
     /\ chat_id \notin DOMAIN db0.chats
     /\ pc = "deleted" => DeleteExecuted) =>
        /\ resp.status = 404
        /\ db.chats = db0.chats
        /\ db.messages = db0.messages

(***************************************************************************)
(* C20  Nothing is retried.  One turn, blocking or streaming, posts at     *)
(* most one chat request upstream and one get_models call issues at most   *)
(* one GET /api/tags, whatever the outcome; and every upstream failure     *)
(* goes back to the caller: as the error reply of chat, as an error frame  *)
(* of the stream, as the error result of get_models.                       *)
(***************************************************************************)
C20_NoRetryFailuresSurfaced ==
    /\ Len(upstream) <= 1
    /\ \A call \in {prev, last} :
          /\ call.gets = (IF call.live THEN 1 ELSE 0)
          /\ call.out \in {"status", "exception", "body"} => call.res.kind = "error"
    /\ (Blocking /\ response.kind = "error") =>
          (resp.status = 500 /\ resp.kind = "error" /\ Len(upstream) = 1)
    /\ (Streaming /\ chunk.kind \in {"error", "raise", "shape"}) =>
          /\ pc = "FAILED"
          /\ frames[Len(frames)].type = "error"
          /\ Len(upstream) = 1

C20_Witness ==
    /\ Streaming
    /\ pc = "FAILED"
    /\ chunk = Chunk("error", "connection")
    /\ cs.lines = 0
    /\ Len(upstream) = 1
    /\ last.live /\ last.out = "exception"
    /\ prev.live /\ prev.out = "status"

(***************************************************************************)
(* C21  Reading a conversation back, with get_chat_messages or get_chat,   *)
(* returns its messages in the order in which they were appended, also     *)
(* when two of them carry the same timestamp.                              *)
(* The SELECT orders by timestamp alone (database.py:229, :261): rows      *)
(* whose timestamps are equal come back in an order SQL leaves open.       *)
(***************************************************************************)
ReadBack == dbcall.op \in {"get_chat_messages", "get_chat"} /\ dbcall.found

C21_ReadBackInAppendOrder ==
    ReadBack => dbcall.rows = ChatRows(db, dbcall.chat_id)

(***************************************************************************)
(* C22  An add_message call that returns a message id has also set the     *)
(* chat's updated_at to a time not earlier than the message's timestamp.   *)
(* update_chat_timestamp catches its own sqlite3.Error and returns         *)
(* (database.py:159-162), so add_message returns the id all the same.      *)
(***************************************************************************)
AppendReturned == dbcall.op = "add_message" /\ ~dbcall.raised

Appended == CHOOSE row \in { db.messages[i] : i \in DOMAIN db.messages } :
                row.id = dbcall.returned

C22_AppendRefreshesUpdatedAt ==
    AppendReturned => db.chats[dbcall.chat_id].updated_at >= Appended.timestamp

(***************************************************************************)
(* C23  Whatever the interleaving of the get_models calls of the request   *)
(* threads, a call that serves the cached model list as fresh compared     *)
(* its time against the timestamp of the very call that fetched that       *)
(* list: timestamp and data of the cache are read as a matched pair.       *)
(* Lines 79 and 80 store the two halves one after the other, with the      *)
(* decoding of the body in between, and nothing keeps a second thread      *)
(* from running lines 68-72 at that point.                                 *)
(***************************************************************************)
C23_CacheEntryIsMatchedPair ==
    \A t \in Threads :
        workers[t].cached => workers[t].compared = workers[t].captured

(***************************************************************************)
(* C24  In chat_stream a line of the body that fails to parse yields one   *)
(* error chunk and ends the sequence: no later line of the response        *)
(* yields a further chunk.                                                 *)
(* The yield of line 221 is the last statement of the loop body and no     *)
(* return follows it: the for loop of line 214 goes on to the next line.   *)
(***************************************************************************)
ParseError == Chunk("error", "parse")

C24_ParseErrorClosesSequence ==
    \A i \in DOMAIN emitted : emitted[i] = ParseError => i = Len(emitted)

(***************************************************************************)
(* C25  A done frame is sent only at the natural end of the stream         *)
(* (chat_stream exhausted, no error chunk seen), after the accumulated     *)
(* text has been stored as one assistant message of the conversation; the  *)
(* message_id of the frame is the id add_message returned for that row.    *)
(* No done frame names a message that storage does not hold.               *)
(***************************************************************************)
C25_DoneFollowsPersist ==
    \A i \in DOMAIN frames :
        frames[i].type = "done" =>
            /\ i = Len(frames)
            /\ chunk.kind = "stop"
            /\ FramesOf("error") = <<>>
            /\ Len(AssistantRows) = 1
            /\ AssistantRows[1].id = frames[i].val
            /\ AssistantRows[1].chat_id = chat_id
            /\ AssistantRows[1].content = full_response
            /\ db.log[Len(db.log)] = [op |-> "add_message", chat_id |-> chat_id,
                                      role |-> "assistant", ok |-> TRUE]

C25_Witness ==
    /\ FramesOf("done") # <<>>
    /\ chunk.kind = "stop"
    /\ full_response = "Hi there"
    /\ AssistantRows # <<>>

(***************************************************************************)
(* C26  In every turn, blocking or streaming, the message list posted      *)
(* upstream is the messages the conversation held in storage when the      *)
(* request arrived, oldest first and unchanged, followed by the new user   *)
(* message as the last entry and nowhere else.                             *)
(* get_chat_messages answers [] when its SELECT raises sqlite3.Error       *)
(* (database.py:266-268); the handlers take that for an empty conversation *)
(* (server.py:138-141, :213-215).                                          *)
(***************************************************************************)
StoredContext == RoleContent(ChatRows(db0, Get(data, "chat_id")))

NewUserMessage == [role |-> "user", content |-> Get(data, "message")]

\* what is posted in the turns whose history read did not fail
ContextSentWhenHistoryWasRead ==
    \A i \in DOMAIN upstream :
        (history = <<>> => StoredContext = <<>>)
            => upstream[i].messages = Append(StoredContext, NewUserMessage)

\* C26: every request posted upstream carries the stored messages of the
\* conversation followed by the new user message
C26_UpstreamIsStoredPlusNew ==
    \A i \in DOMAIN upstream :
        upstream[i].messages = Append(StoredContext, NewUserMessage)

(***************************************************************************)
(* C27  get_models returns the cached model list without a live request    *)
(* exactly when force_refresh is false, the cache holds a list and         *)
(* current_time - timestamp < models_cache_time (strictly); consequently   *)
(* no list served from the cache was fetched by a live request started     *)
(* models_cache_time or more seconds before the call that serves it.       *)
(* The timestamp is also moved by a live call whose body cannot be decoded *)
(* (line 79 before line 80, see C11), and then no longer says when the     *)
(* list in the cache was fetched.                                          *)
(***************************************************************************)
\* the test of lines 68-70 decides between the cache and the live request
CacheServedIffValid ==
    [][last' # last =>
          (~last'.live <=> (/\ ~last'.force
                            /\ models_cache.data # NoModels
                            /\ last'.time - models_cache.timestamp < models_cache_time))]_vars

\* C27: a list served from the cache was fetched less than models_cache_time
\* seconds before the call that serves it
C27_NoStaleSnapshotServed ==
    (last.res.kind = "models" /\ ~last.live) => last.time - origin < models_cache_time

(***************************************************************************)
(* C28  For the same model, message, history, temperature and max_tokens   *)
(* chat and chat_stream build the same request: the same model, the same   *)
(* message list and the same resolved options; the two differ in the       *)
(* stream flag and in nothing else.  Read on the request a turn has        *)
(* posted, against the request the other client builds from the turn's     *)
(* arguments, and on the same arguments with a history of two messages.    *)
(***************************************************************************)
Histories == {history, RoleContent(ChatRows(Db2, OldChat))}

SameBut_stream(blocking, streaming) ==
    /\ blocking.stream = FALSE
    /\ streaming.stream = TRUE
    /\ [streaming EXCEPT !.stream = FALSE] = blocking

C28_SameRequestInBothModes ==
    upstream # <<>> =>
        LET temperature == GetNumber(data, "temperature")
            max_tokens == GetNumber(data, "max_tokens")
            posted == upstream[1]
        IN  /\ IF posted.stream
               THEN SameBut_stream(chat_request_body(model, message, history,
                                                     temperature, max_tokens), posted)
               ELSE SameBut_stream(posted, chat_stream_request_body(model, message, history,
                                                                    temperature, max_tokens))
            /\ \A hist \in Histories :
                 SameBut_stream(
                     chat_request_body(model, message, hist, temperature, max_tokens),
                     chat_stream_request_body(model, message, hist, temperature, max_tokens))

C28_Witness ==
    /\ Blocking
    /\ upstream # <<>>
    /\ model = "mistral"
    /\ MODEL_PARAMS["llama3"].temperature = 20
    /\ data.keys = {"model", "message", "max_tokens"}
    /\ upstream[1].options = [temperature |-> 72, num_predict |-> 100]
    /\ chat_stream_request_body(model, message, history, None, <<100>>)
           = [upstream[1] EXCEPT !.stream = TRUE]

(***************************************************************************)
(* C29  connect_server probes the server of the request with a client of   *)
(* its own: whatever the outcome of the probe, api_url and models_cache    *)
(* (timestamp and data) of the module's ollama_client are what they were,  *)
(* the client built for the probe has the URL of the request, and no       *)
(* client's api_url changes after the client has been built.               *)
(***************************************************************************)
C29_ProbeLeavesSharedClient ==
    /\ [](api_url = OLLAMA_API_URL)
    /\ [][probed' # probed =>
             /\ api_url' = api_url
             /\ models_cache' = models_cache
             /\ test_client' # test_client => test_client'.api_url = url']_vars
    /\ [][probed' = probed => test_client'.api_url = test_client.api_url]_vars

C29_Witness ==
    /\ probed = 2
    /\ resp.status = 200
    /\ test_client.api_url = "http://10.0.0.2:11434"
    /\ test_client.models_cache.data = "tags-2"
    /\ models_cache.data = "tags-1"
    /\ api_url = "http://localhost:11434"
    /\ Len(servers) = 3
    /\ last.live

(***************************************************************************)
(* C30  The blocking client call never raises: for every outcome of the    *)
(* request (status 200, another status, connection failure, timeout, a     *)
(* body that cannot be decoded) chat returns the decoded response or a     *)
(* result with the key error; and the handler answers every error result   *)
(* with an error response, 500, without a call to storage.                 *)
(***************************************************************************)
Failures == {"status", "connection", "timeout", "body"}

C30_BlockingCallNeverRaises ==
    /\ \A o \in PostOutcomes :
         /\ OllamaClient_chat(o).kind \in {"ok", "nomsg", "error"}
         /\ OllamaClient_chat(o).kind = "error" <=> o.kind \in Failures
         /\ o.kind \notin Failures => OllamaClient_chat(o) = o
    /\ Blocking =>
         /\ response.kind \in {"ok", "nomsg", "error"}
         /\ response.kind = "error" =>
              /\ resp.status = 500
              /\ resp.kind = "error"
              /\ Untouched
              /\ db.log = <<>>
              /\ Len(upstream) = 1

C30_Witness ==
    /\ Blocking
    /\ response = [kind |-> "error", content |-> "body"]
    /\ resp.status = 500
    /\ db0.messages # <<>>
    /\ history # <<>>

(***************************************************************************)
(* C31  With a finite upstream chunk sequence and a caller that keeps      *)
(* reading, every streaming turn eventually ends in DONE or FAILED: the    *)
(* relay does not wait or loop for ever once chat_stream is exhausted or   *)
(* has handed over an error chunk.                                         *)
(* generate does end in every run; but when create_chat or add_message     *)
(* raises before the try block (server.py:223-235, see C18) it ends by     *)
(* that exception, with neither a done frame nor an error frame.           *)
(***************************************************************************)
\* generate ends, one way or another
EveryTurnEnds == Streaming ~> GenerateEnded

\* C31: every streaming turn reaches DONE or FAILED
C31_StreamingTurnTerminates == Streaming ~> (pc \in {"DONE", "FAILED"})

(***************************************************************************)
(* C32  A stream that reaches its natural end without a content delta      *)
(* (no chunk, or only chunks with neither an error nor message content)    *)
(* is completed like any other: add_message is called once for the         *)
(* assistant with the empty text, and when that call returns the           *)
(* conversation holds one new assistant message with content "" and the    *)
(* last frame is the done frame with its id.  A chunk with neither an      *)
(* error nor message content yields no frame and changes neither the       *)
(* accumulated text nor storage.                                           *)
(***************************************************************************)
NaturalEndWithoutContent ==
    /\ Streaming
    /\ pc \in {"DONE", "FAILED"}
    /\ chunk.kind = "stop"
    /\ FramesOf("content") = <<>>

EmptyAnswerPersisted ==
    NaturalEndWithoutContent =>
        /\ full_response = ""
        /\ Len(Calls("add_message", "assistant")) = 1
        /\ db.log[Len(db.log)].ok =>
             /\ pc = "DONE"
             /\ Len(AssistantRows) = 1
             /\ AssistantRows[1].content = ""
             /\ AssistantRows[1].chat_id = chat_id
             /\ frames[Len(frames)] = Frame("done", AssistantRows[1].id)
             /\ FramesOf("error") = <<>>

SilentChunk ==
    (generate_next /\ chunk'.kind = "other") =>
        UNCHANGED <<frames, full_response, db, pc>>

\* C32: an empty answer is persisted and announced; silent chunks do nothing
C32_EmptyStreamStillCompletes == []EmptyAnswerPersisted /\ [][SilentChunk]_vars

\* two chunks without error or content, then the end of the body
C32_Witness ==
    /\ NaturalEndWithoutContent
    /\ cs.lines = 2
    /\ pc = "DONE"
    /\ AssistantRows # <<>>
    /\ AssistantRows[1].content = ""
    /\ frames[Len(frames)].type = "done"

(***************************************************************************)
(* C33  In every reachable state of a client the data field of the cache   *)
(* is None (never fetched) or a snapshot decoded from a GET /api/tags      *)
(* response of status 200: the field changes only in a live call whose     *)
(* response had status 200 and a decodable body, and takes that body.  An  *)
(* error result is never stored, so a call answered from the cache         *)
(* returns a snapshot, never an error.                                     *)
(***************************************************************************)
CacheDataIsSnapshot == models_cache.data \in {NoModels} \cup Snapshots

CachedAnswerIsSnapshot ==
    (last # NoCall /\ ~last.live) =>
        /\ last.res.kind = "models"
        /\ last.res.val \in Snapshots

CacheStoredOnSuccessOnly ==
    models_cache'.data # models_cache.data =>
        /\ last'.live
        /\ last'.out = "ok"
        /\ last'.res = [kind |-> "models", val |-> models_cache'.data]

\* C33: the cache never holds and never serves an error result
C33_CacheNeverHoldsError ==
    [](CacheDataIsSnapshot /\ CachedAnswerIsSnapshot) /\ [][CacheStoredOnSuccessOnly]_vars

\* a forced refresh failed, and the next call is answered from the cache
C33_Witness ==
    /\ prev.live
    /\ prev.res.kind = "error"
    /\ ~last.live
    /\ last.res.kind = "models"
    /\ last.res.val = models_cache.data

(***************************************************************************)
(* C34  Two streaming turns on two different conversations, interleaved in *)
(* any way: each message a turn persists is a row of that turn's own       *)
(* conversation (the one its request named, or the one it created); the    *)
(* assistant message a turn persists is the concatenation of the deltas    *)
(* its own chat_stream delivered; the chat_id frame and the done frame of  *)
(* a turn name its own conversation and its own message; and no turn       *)
(* writes a row into the other turn's conversation.                        *)
(***************************************************************************)
\* the conversation of turn t: named by the request, or created by the turn
OwnChat(t) ==
    IF Truthy(turns[t].supplied) THEN turns[t].supplied ELSE turns[t].new_chat_id

RowsWrittenBy(t) ==
    SelectSeq(db.messages,
              LAMBDA r : \E i \in DOMAIN turns[t].wrote : turns[t].wrote[i] = r.id)

TurnKeepsToItsConversation(t) ==
    LET rows == RowsWrittenBy(t)
        fr == turns[t].frames
    IN  /\ Len(rows) = Len(turns[t].wrote)
        /\ \A i \in DOMAIN rows :
             /\ rows[i].chat_id = OwnChat(t)
             /\ rows[i].role = "user" => rows[i].content = turns[t].message
             /\ rows[i].role = "assistant" => rows[i].content = Concat(turns[t].deltas)
        /\ \A i \in DOMAIN fr :
             /\ fr[i].type = "chat_id" => fr[i].val = OwnChat(t)
             /\ fr[i].type = "done" =>
                  /\ rows # <<>>
                  /\ fr[i].val = rows[Len(rows)].id
                  /\ rows[Len(rows)].role = "assistant"
        /\ [i \in 1..Len(SelectSeq(fr, LAMBDA f : f.type = "content")) |->
                SelectSeq(fr, LAMBDA f : f.type = "content")[i].val] = turns[t].deltas

\* C34: concurrent turns on different conversations do not touch each other
C34_TurnsAreIsolated ==
    /\ \A t \in Threads : TurnKeepsToItsConversation(t)
    /\ \A t, u \in Threads :
         (t # u /\ Truthy(OwnChat(t)) /\ Truthy(OwnChat(u))) =>
             /\ OwnChat(t) # OwnChat(u)
             /\ \A i \in DOMAIN db.messages :
                  db.messages[i].chat_id = OwnChat(u) =>
                      \A j \in DOMAIN turns[t].wrote : turns[t].wrote[j] # db.messages[i].id
    /\ Len(db.messages) = Len(turns[1].wrote) + Len(turns[2].wrote)

\* turn 1 creates its conversation while turn 2 runs on a stored one; both
\* end with a done frame, their rows interleaved in the messages table
C34_Witness ==
    /\ turns[1].pc = "DONE"
    /\ turns[2].pc = "DONE"
    /\ ~Truthy(turns[1].supplied)
    /\ turns[2].supplied = OtherChat
    /\ turns[1].deltas = <<"Hi", " there">>
    /\ turns[2].deltas = <<" there">>
    /\ Len(db.messages) = 4
    /\ db.messages[1].chat_id = OtherChat
    /\ db.messages[2].chat_id = OwnChat(1)
    /\ db.messages[3].chat_id = OtherChat
    /\ db.messages[4].chat_id = OwnChat(1)

(***************************************************************************)
(* C35  When delete_chat(id) has returned True, the conversation and all   *)
(* its messages are gone: get_chat(id) finds nothing and                   *)
(* get_chat_messages(id) is empty, from then on; every other conversation  *)
(* and its messages are as they were before the call.                      *)
(***************************************************************************)
LastWrite == db.log[Len(db.log)]

\* ids for which a delete_chat call has returned True
Deleted ==
    { db.log[i].chat_id :
        i \in { j \in DOMAIN db.log : db.log[j].op = "delete_chat" /\ db.log[j].ok } }

DeleteRemovesChatAndMessages ==
    (Len(db'.log) = Len(db.log) + 1 /\ LastWrite'.op = "delete_chat" /\ LastWrite'.ok) =>
        LET cid == LastWrite'.chat_id
        IN  /\ dbcall'.returned = "True"
            /\ get_chat(db', cid, TRUE) = {NoChat}
            /\ get_chat_messages(db', cid, TRUE) = { <<>> }
            /\ \A r \in BOOLEAN : get_chat_messages(db', cid, r) = { <<>> }
            /\ DOMAIN db'.chats = DOMAIN db.chats \ {cid}
            /\ \A c \in DOMAIN db'.chats :
                 /\ db'.chats[c] = db.chats[c]
                 /\ ChatRows(db', c) = ChatRows(db, c)

ReadAfterDelete ==
    (dbcall.op \in {"get_chat", "get_chat_messages"} /\ dbcall.chat_id \in Deleted) =>
        /\ dbcall.rows = <<>>
        /\ dbcall.op = "get_chat" => ~dbcall.found

\* C35: a deleted conversation is gone with its messages, the others stay
C35_DeleteCascades == []ReadAfterDelete /\ [][DeleteRemovesChatAndMessages]_vars

\* the conversation with two messages was deleted and then read; the other
\* conversation still has its message
C35_Witness ==
    /\ OldChat \in Deleted
    /\ dbcall.op = "get_chat"
    /\ dbcall.chat_id = OldChat
    /\ ~dbcall.found
    /\ Len(ChatRows(db0, OldChat)) = 2
    /\ ChatRows(db, OtherChat) = ChatRows(db0, OtherChat)
    /\ ChatRows(db, OtherChat) # <<>>

(***************************************************************************)
(* C36  After init_db and any sequence of save_server calls, with          *)
(* is_default true or false, committing or raising, at most one row of the *)
(* servers table has is_default set; and when a save_server call with      *)
(* is_default true has returned, the row it inserted is the only one with  *)
(* is_default set.                                                         *)
(***************************************************************************)
DefaultRows == SelectSeq(servers, LAMBDA r : r.is_default = 1)

AtMostOneDefault == Len(DefaultRows) <= 1

SavedAsDefault ==
    /\ dbcall.op = "save_server"
    /\ ~dbcall.raised
    /\ dbcall.found                 \* the call's is_default argument

JustSavedIsTheDefault ==
    SavedAsDefault =>
        /\ Len(DefaultRows) = 1
        /\ DefaultRows[1].id = dbcall.returned
        /\ servers[Len(servers)].id = dbcall.returned

RaisingSaveChangesNothing ==
    (dbcall'.op = "save_server" /\ dbcall'.raised) => servers' = servers

\* C36: the servers table never has two defaults
C36_SingleDefaultServer ==
    [](AtMostOneDefault /\ JustSavedIsTheDefault) /\ [][RaisingSaveChangesNothing]_vars

\* a second default was saved over the first one, after the row of init_db
C36_Witness ==
    /\ SavedAsDefault
    /\ Len(servers) = 3
    /\ servers[1].is_default = 0
    /\ servers[2].is_default = 0
    /\ servers[3].is_default = 1
    /\ servers[2].name = "A"
    /\ servers[3].name = "B"

============================================================================
